---- MODULE Spec2Model ----
(***************************************************************************)
(* Model of the PhyToWeb extraction / normalization pipeline:              *)
(*   - the schema-guided normalizer  (llm_client.py, utils.py)             *)
(*   - the upload deduplication cache (s3_facade.py, redis_facade.py)      *)
(*   - the asynchronous OCR job poller (text_extractor.py)                 *)
(*   - the block graph reader and form field reconstructor                 *)
(*   - the HTTP handler of POST /api/extract/ (router.py)                  *)
(* Each component has its own specification (SpecNormalize, SpecUpload,    *)
(* SpecPoll, SpecReader, SpecRequest); the variables of the other          *)
(* components stay at their initial values.                                *)
(***************************************************************************)
EXTENDS Integers, Sequences, FiniteSets, TLC

(***************************************************************************)
(* Bounds of the model                                                     *)
(***************************************************************************)
\* number of upload calls started in one behaviour
MaxCalls == 3
\* number of status checks one poll call may issue in the model
MaxChecks == 3
\* number of cache entries whose TTL runs out in one behaviour
MaxExpiries == 1
\* number of OCR jobs submitted in one behaviour
MaxJobs == 2
\* number of normalize calls in one behaviour
MaxNormCalls == 2
\* number of blocks in one OCR response
MaxBlocks == 4
\* number of /api/extract requests in one behaviour
MaxRequests == 2
\* number of TABLE and CELL blocks in one OCR response
MaxTableBlocks == 4
\* number of /api/upload-schema requests in one behaviour
MaxSchemaRequests == 2

(***************************************************************************)
(* Values shared by the components                                         *)
(***************************************************************************)
\* Python exceptions: type, message and the wrapped original error (a
\* sequence of length 0 or 1, so that all exception values have one shape).
Exc(type, msg, orig) == [type |-> type, msg |-> msg, orig |-> orig]

NoExc == Exc("none", "", <<>>)

\* Outcome of a call: it returned a value, it raised, or it has not finished.
Returned(v) == [kind |-> "return", val |-> <<v>>, exc |-> NoExc]

Raised(e) == [kind |-> "raise", val |-> <<>>, exc |-> e]

Pending == [kind |-> "pending", val |-> <<>>, exc |-> NoExc]

VARIABLES
  \* ---- normalizer (process_form_data / LLMClient.invoke) ----
  nPc,          \* "idle", "invoke", "sleep", "done"
  nArgs,        \* arguments of the running process_form_data call
  nAttempt,     \* loop variable `attempt` of LLMClient.invoke (0-based)
  nLog,         \* history of the call: prepare, invoke and sleep events
  nNow,         \* clock of the calling thread (time units slept so far)
  nResult,      \* outcome of process_form_data
  nCalls,       \* number of process_form_data calls started
  \* ---- upload deduplication (S3Facade / RedisFacade) ----
  cache,        \* the Redis cache: digest -> <<>> (absent) or <<stored name>>
  blob,         \* the form bucket: key -> <<>> (absent) or <<bytes>>
  uPc,          \* per worker: "idle", "exists", "get", "put", "set", "done"
  uArgs,        \* per worker: file_content and file_name of the running call
  uHash,        \* per worker: local variable file_hash (<<>> before line 63)
  uRet,         \* per worker: outcome of the running call
  uOps,         \* per worker: cache reads, cache writes and puts of the call
  uLast,        \* history: the call that returned last (NoCall after an
                \* expiry or a failed call)
  uPrev,        \* history, per worker: the call its running call follows
                \* sequentially, with no expiry since (else NoCall)
  uCalls,       \* number of upload calls started
  uExpiries,    \* number of cache entries that expired
  \* ---- asynchronous OCR job (start / get_async_textract_results) ----
  pPc,          \* "idle", "poll", "sleep", "done"
  jobStatus,    \* the provider's status of the job ("NONE" before a submit)
  pLog,         \* history of the call: submit, check and sleep events
  pNow,         \* clock of the calling thread (time units slept so far)
  pResult,      \* outcome of get_async_textract_results
  pChecks,      \* status checks issued by the running poll
  pJobs,        \* number of submissions made
  \* ---- block graph reader and form field reconstructor ----
  bPc,          \* "idle", "received", "processed"
  bBlocks,      \* response["Blocks"] of the OCR response being processed
  bOut,         \* what process_response computed: word_map, lines,
                \* form_fields and the formatted text
  \* ---- POST /api/extract/ (router.extract_form_data) ----
  rCall,        \* history of the last request: what each stage was given
                \* and what it produced
  rResp,        \* the HTTP response of the last request
  rPrev500,     \* history: the body of the latest earlier 500 response,
                \* as <<body>> (<<>> when there is none)
  rReqs,        \* number of requests handled
  rOcrCalls,    \* history: the provider calls extract_text made for the
                \* file of the last request, in order
  \* ---- table reconstruction (extractTables of the design) ----
  tPc,          \* "idle", "received", "extracted"
  tBlocks,      \* the TABLE and CELL blocks of the response, in order
  tOut,         \* the tables: items [k |-> table key, v |-> rows]
  \* ---- POST /api/upload-schema (router.upload_schema) ----
  schema_json,  \* content of the file schema.json of the working directory
  schema_bucket,\* the schema bucket: object key -> <<body>> (<<>>: no object)
  sPc,          \* per worker: "idle", "dump", "read", "put", "done"
  sPayload,     \* per worker: the payload [key, data_schema] of its request
  sBody,        \* per worker: byte_content read by S3Facade.upload_schema
  sResp,        \* per worker: status of its response (0: none yet)
  sReqs         \* number of upload-schema requests received

nVars == <<nPc, nArgs, nAttempt, nLog, nNow, nResult, nCalls>>

uVars == <<cache, blob, uPc, uArgs, uHash, uRet, uOps, uLast, uPrev, uCalls, uExpiries>>

pVars == <<pPc, jobStatus, pLog, pNow, pResult, pChecks, pJobs>>

bVars == <<bPc, bBlocks, bOut>>

rVars == <<rCall, rResp, rPrev500, rReqs, rOcrCalls>>

tVars == <<tPc, tBlocks, tOut>>

sVars == <<schema_json, schema_bucket, sPc, sPayload, sBody, sResp, sReqs>>

vars == <<nVars, uVars, pVars, bVars, rVars, tVars, sVars>>

\* What the actions of one component leave unchanged.
NotNormalize == <<uVars, pVars, bVars, rVars, tVars, sVars>>

NotUpload == <<nVars, pVars, bVars, rVars, tVars, sVars>>

NotPoll == <<nVars, uVars, bVars, rVars, tVars, sVars>>

NotReader == <<nVars, uVars, pVars, rVars, tVars, sVars>>

NotRequest == <<nVars, uVars, pVars, bVars, tVars, sVars>>

NotTables == <<nVars, uVars, pVars, bVars, rVars, sVars>>

NotSchema == <<nVars, uVars, pVars, bVars, rVars, tVars>>

(***************************************************************************)
(* Values exchanged with the language model (llm_client.py)                *)
(***************************************************************************)
\* A Python value: t is its runtime type class, v a scalar payload, c the
\* children (a list's items, or the <<key, value>> pairs of a dict or of a
\* BaseModel instance).
Val(t, v, c) == [t |-> t, v |-> v, c |-> c]

Prim(v) == Val("prim", v, <<>>)

DateTime(v) == Val("datetime", v, <<>>)

Other(v) == Val("other", v, <<>>)

PyList(items) == Val("seq", "", items)

PyDict(pairs) == Val("map", "", pairs)

BaseModel(pairs) == Val("record", "", pairs)

PyNone == Prim("None")

\* datetime.isoformat(): "YYYY-MM-DD HH:MM:SS" instants rendered with the
\* "T" separator.
isoformat(v) ==
  CASE v = "2024-10-07 00:00:00" -> "2024-10-07T00:00:00"
    [] v = "2025-01-31 12:30:00" -> "2025-01-31T12:30:00"
    [] OTHER -> v

\* BaseModel.model_dump() (python mode): records become dicts at every depth,
\* lists and dicts are walked, every other value (datetime included) is kept.
RECURSIVE model_dump_value(_)
model_dump_value(x) ==
  CASE x.t = "record" ->
         PyDict([i \in 1..Len(x.c) |-> <<x.c[i][1], model_dump_value(x.c[i][2])>>])
    [] x.t = "map" ->
         PyDict([i \in 1..Len(x.c) |-> <<x.c[i][1], model_dump_value(x.c[i][2])>>])
    [] x.t = "seq" ->
         PyList([i \in 1..Len(x.c) |-> model_dump_value(x.c[i])])
    [] OTHER -> x

model_dump(x) == model_dump_value(x)

\* The nested helper `serialize` of PydanticModelStrategy.serialize_response.
RECURSIVE serialize(_)
serialize(obj) ==
  CASE obj.t = "record" -> model_dump(obj)
    [] obj.t = "seq" -> PyList([i \in 1..Len(obj.c) |-> serialize(obj.c[i])])
    [] obj.t = "map" ->
         PyDict([i \in 1..Len(obj.c) |-> <<obj.c[i][1], serialize(obj.c[i][2])>>])
    [] OTHER -> obj

PydanticModelStrategy_serialize_response(response) ==
  IF response.t = "record" THEN Returned(model_dump(response))
  ELSE IF response.t = "map" THEN Returned(serialize(response))
  ELSE Raised(Exc("ValueError",
                  "Error during serialization due to unsupported type",
                  <<Exc("TypeError", "Response type not supported for serialization", <<>>)>>))

\* json.dumps(obj, cls=CustomJSONEncoder): TRUE when the encoder accepts obj.
\* CustomJSONEncoder.default turns a datetime into a string and a BaseModel
\* into its model_dump(), which is then encoded in turn; anything else that
\* is not JSON-native is refused by JSONEncoder.default with TypeError.
RECURSIVE json_encodable(_)
json_encodable(x) ==
  CASE x.t = "prim" -> TRUE
    [] x.t = "datetime" -> TRUE
    [] x.t = "seq" -> \A i \in 1..Len(x.c) : json_encodable(x.c[i])
    [] x.t \in {"map", "record"} -> \A i \in 1..Len(x.c) : json_encodable(x.c[i][2])
    [] OTHER -> FALSE

\* json.loads(json.dumps(obj, cls=CustomJSONEncoder)) for an encodable obj.
RECURSIVE json_roundtrip(_)
json_roundtrip(x) ==
  CASE x.t = "datetime" -> Prim(isoformat(x.v))
    [] x.t = "seq" -> PyList([i \in 1..Len(x.c) |-> json_roundtrip(x.c[i])])
    [] x.t \in {"map", "record"} ->
         PyDict([i \in 1..Len(x.c) |-> <<x.c[i][1], json_roundtrip(x.c[i][2])>>])
    [] OTHER -> x

JsonSchemaStrategy_serialize_response(response) ==
  IF json_encodable(response) THEN Returned(json_roundtrip(response))
  ELSE Raised(Exc("TypeError", "Object is not JSON serializable", <<>>))

serialize_response(use_pydantic, response) ==
  IF use_pydantic THEN PydanticModelStrategy_serialize_response(response)
  ELSE JsonSchemaStrategy_serialize_response(response)

\* utils.validate_output.  The statement `raise ValidationError("...")` first
\* constructs the exception; pydantic's ValidationError has no constructor
\* taking a message (pydantic 2: "No constructor defined"; pydantic 1:
\* __init__ needs (errors, model)), so the construction raises TypeError and
\* that TypeError is what leaves validate_output.
validate_output(data) ==
  IF data.t # "map"
  THEN Raised(Exc("TypeError", "No constructor defined for ValidationError", <<>>))
  ELSE Returned(data)

(***************************************************************************)
(* Schema-guided normalizer: process_form_data and LLMClient.invoke        *)
(***************************************************************************)
\* Faulty variant, used to show the property is sensitive: one attempt more than the retry budget.
max_retries_one_more == 3 + 1

max_retries == 3

retry_delay == 2

\* Faulty variant, used to show the property is sensitive: a lookup table that knows every key.
DATA_SCHEMA_MAPPER_any_key == {"resume", "card", "registration_for_ngo_npo", "invoice"}

\* The keys of DATA_SCHEMA_MAPPER.
DATA_SCHEMA_MAPPER == {"resume", "card", "registration_for_ngo_npo"}

\* data_schema_key arguments of the model: a recognized key and an unknown one.
SchemaKeys == {"resume", "invoice"}

\* input_content arguments: None, the empty string and a non-empty text.
PyStr(s) == [none |-> FALSE, s |-> s]

PyNoneArg == [none |-> TRUE, s |-> ""]

InputContents == {PyNoneArg, PyStr(""), PyStr("Extracted Form Fields: ...")}

\* What self.llm.invoke(messages) can produce: a response value ...
Responses ==
  { BaseModel(<<<<"name", Prim("Aria")>>>>),
    PyDict(<<<<"name", Prim("Aria")>>>>),
    PyDict(<<<<"issued", DateTime("2024-10-07 00:00:00")>>>>),
    BaseModel(<<<<"issued", DateTime("2025-01-31 12:30:00")>>>>),
    PyDict(<<<<"tags", PyList(<<Other("set()")>>)>>>>),
    BaseModel(<<<<"tags", Other("set()")>>>>),
    PyList(<<Prim("Aria")>>),
    Other("set()") }

\* ... or an exception: the structured-output parser's pydantic
\* ValidationError, or a provider error.
ModelErrors ==
  { Exc("ValidationError", "1 validation error for Resume", <<>>),
    Exc("APIConnectionError", "Connection error.", <<>>),
    Exc("RateLimitError", "Rate limit reached", <<>>) }

LLMOutcomes ==
  {Returned(r) : r \in Responses} \cup {Raised(e) : e \in ModelErrors}

\* Outcomes of strategy.prepare_llm under the JSON-schema strategy.
PrepareOutcomes == {"ok", "download_error", "parse_error"}

LLMProcessingError(msg, original_error) ==
  Exc("LLMProcessingError", msg, <<original_error>>)

\* Lines 153-157: the body of the try block of one attempt, given what the
\* model call produced.  stage names where the attempt ended.
AttemptBody(use_pydantic, outcome) ==
  IF outcome.kind = "raise"
  THEN [stage |-> "model", res |-> outcome]
  ELSE LET ser == serialize_response(use_pydantic, outcome.val[1])
       IN IF ser.kind = "raise"
          THEN [stage |-> "serialize", res |-> ser]
          ELSE LET chk == validate_output(ser.val[1])
               IN IF chk.kind = "raise"
                  THEN [stage |-> "validate", res |-> chk]
                  ELSE [stage |-> "ok", res |-> Returned(ser.val[1])]

\* Faulty variant, used to show the property is sensitive: the backoff computed from the 0-based loop variable.
BackoffDelay_zero_based(attempt) == retry_delay * attempt

\* Line 167: the argument of time.sleep after a failed attempt.
BackoffDelay(attempt) == retry_delay * (attempt + 1)

\* Faulty variant, used to show the property is sensitive: the final attempt compared against max_retries itself.
IsFinalAttempt_off_by_one(attempt) == attempt = max_retries

\* Lines 160 and 164: `attempt == self.max_retries - 1`.
IsFinalAttempt(attempt) == attempt = max_retries - 1

\* Line 151: the for loop advances to the next attempt, or is exhausted and
\* invoke falls off its end, returning None.
LoopContinues(attempt) == attempt + 1 < max_retries

\* Faulty variant, used to show the property is sensitive: only LLMProcessingError and ValidationError are handled.
process_form_data_handlers_no_catch_all(exc) ==
  CASE exc.type = "LLMProcessingError" -> exc
    [] exc.type = "ValidationError" -> LLMProcessingError("Data validation failed", exc)
    [] OTHER -> exc

\* Lines 237-249: the except clauses of process_form_data.
process_form_data_handlers(exc) ==
  CASE exc.type = "LLMProcessingError" -> exc
    [] exc.type = "ValidationError" -> LLMProcessingError("Data validation failed", exc)
    [] OTHER -> LLMProcessingError("Processing failed", exc)

\* An entry of the call history: out is what the model call produced, res
\* what the attempt made of it, at the time at which the event began.
LogEntry(ev, attempt, stage, out, res, dur, at) ==
  [ev |-> ev, attempt |-> attempt, stage |-> stage, out |-> out, res |-> res,
   dur |-> dur, at |-> at]

NoArgs == [data_schema_key |-> "", use_pydantic |-> FALSE, input_content |-> PyNoneArg]

\* process_form_data lines 204-224: input check, strategy choice and
\* llm_client.prepare_llm(); prep is what the schema fetch and parse do.
ProcessFormDataCall(key, use_pydantic, input_content, prep) ==
  /\ nPc = "idle"
  /\ nCalls < MaxNormCalls
  /\ nCalls' = nCalls + 1
  /\ nArgs' = [data_schema_key |-> key, use_pydantic |-> use_pydantic,
               input_content |-> input_content]
  /\ nAttempt' = 0
  /\ nNow' = nNow
  /\ UNCHANGED NotNormalize
  /\ IF input_content.none
     THEN /\ nResult' = Raised(process_form_data_handlers(
                 Exc("ValueError", "Input content must be provided.", <<>>)))
          /\ nPc' = "done"
          /\ nLog' = <<>>
     ELSE IF use_pydantic /\ key \notin DATA_SCHEMA_MAPPER
     THEN /\ nResult' = Raised(process_form_data_handlers(Exc("KeyError", key, <<>>)))
          /\ nPc' = "done"
          /\ nLog' = <<>>
     ELSE IF ~use_pydantic /\ prep # "ok"
     THEN /\ nResult' = Raised(process_form_data_handlers(
                 Exc("Exception", "Error preparing LLM with schema", <<>>)))
          /\ nPc' = "done"
          /\ nLog' = <<LogEntry("prepare", 0, prep, Pending, Pending, 0, nNow)>>
     ELSE /\ nResult' = Pending
          /\ nPc' = "invoke"
          /\ nLog' = <<LogEntry("prepare", 0, "ok", Pending, Pending, 0, nNow)>>

\* One iteration of the for loop of LLMClient.invoke (lines 151-165), up to
\* the point where it returns, raises, starts to sleep or moves on.
InvokeAttempt(outcome) ==
  /\ nPc = "invoke"
  /\ LET body == AttemptBody(nArgs.use_pydantic, outcome)
         exc == body.res.exc
         entry == LogEntry("invoke", nAttempt, body.stage, outcome, body.res, 0, nNow)
     IN /\ nLog' = Append(nLog, entry)
        /\ IF body.stage = "ok"
           THEN /\ nResult' = body.res
                /\ nPc' = "done"
                /\ nAttempt' = nAttempt
           ELSE IF exc.type = "ValidationError"
           THEN IF IsFinalAttempt(nAttempt)
                THEN /\ nResult' = Raised(process_form_data_handlers(
                            LLMProcessingError("Validation failed for LLM response", exc)))
                     /\ nPc' = "done"
                     /\ nAttempt' = nAttempt
                ELSE IF LoopContinues(nAttempt)
                THEN /\ nResult' = Pending
                     /\ nPc' = "invoke"
                     /\ nAttempt' = nAttempt + 1
                ELSE /\ nResult' = Returned(PyNone)
                     /\ nPc' = "done"
                     /\ nAttempt' = nAttempt
           ELSE IF IsFinalAttempt(nAttempt)
                THEN /\ nResult' = Raised(process_form_data_handlers(
                            LLMProcessingError("Max retries exceeded", exc)))
                     /\ nPc' = "done"
                     /\ nAttempt' = nAttempt
                ELSE /\ nResult' = Pending
                     /\ nPc' = "sleep"
                     /\ nAttempt' = nAttempt
  /\ UNCHANGED <<nArgs, nNow, nCalls>>
  /\ UNCHANGED NotNormalize

\* Line 167: time.sleep(self.retry_delay * (attempt + 1)), then the loop
\* header again.
RetrySleep ==
  /\ nPc = "sleep"
  /\ nNow' = nNow + BackoffDelay(nAttempt)
  /\ nLog' = Append(nLog, LogEntry("sleep", nAttempt, "", Pending, Pending,
                                   BackoffDelay(nAttempt), nNow))
  /\ IF LoopContinues(nAttempt)
     THEN /\ nPc' = "invoke"
          /\ nAttempt' = nAttempt + 1
          /\ nResult' = Pending
     ELSE /\ nPc' = "done"
          /\ nAttempt' = nAttempt
          /\ nResult' = Returned(PyNone)
  /\ UNCHANGED <<nArgs, nCalls>>
  /\ UNCHANGED NotNormalize

\* The caller takes the outcome; the next request may call process_form_data.
ProcessFormDataDone ==
  /\ nPc = "done"
  /\ nCalls < MaxNormCalls
  /\ nPc' = "idle"
  /\ nLog' = <<>>
  /\ nResult' = Pending
  /\ nArgs' = NoArgs
  /\ nAttempt' = 0
  /\ nNow' = 0
  /\ UNCHANGED nCalls
  /\ UNCHANGED NotNormalize

(***************************************************************************)
(* File names and the filename policy (utils.py)                           *)
(***************************************************************************)
\* A file name is a sequence of one-character strings.
Letters ==
  {"a","b","c","d","e","f","g","h","i","j","k","l","m","n","o","p","q","r","s","t",
   "u","v","w","x","y","z",
   "A","B","C","D","E","F","G","H","I","J","K","L","M","N","O","P","Q","R","S","T",
   "U","V","W","X","Y","Z"}

Digits == {"0","1","2","3","4","5","6","7","8","9"}

\* str.lower() on one character.
LowerChar(ch) ==
  CASE ch = "A" -> "a" [] ch = "B" -> "b" [] ch = "C" -> "c" [] ch = "D" -> "d"
    [] ch = "E" -> "e" [] ch = "F" -> "f" [] ch = "G" -> "g" [] ch = "H" -> "h"
    [] ch = "I" -> "i" [] ch = "J" -> "j" [] ch = "K" -> "k" [] ch = "L" -> "l"
    [] ch = "M" -> "m" [] ch = "N" -> "n" [] ch = "O" -> "o" [] ch = "P" -> "p"
    [] ch = "Q" -> "q" [] ch = "R" -> "r" [] ch = "S" -> "s" [] ch = "T" -> "t"
    [] ch = "U" -> "u" [] ch = "V" -> "v" [] ch = "W" -> "w" [] ch = "X" -> "x"
    [] ch = "Y" -> "y" [] ch = "Z" -> "z" [] OTHER -> ch

lower(str) == [i \in 1..Len(str) |-> LowerChar(str[i])]

\* str.rfind(ch) as a 1-based index, 0 when ch does not occur.
rfind(str, ch) ==
  LET hits == {i \in 1..Len(str) : str[i] = ch}
  IN IF hits = {} THEN 0 ELSE CHOOSE i \in hits : \A j \in hits : j <= i

\* os.path.splitext(p)[1]: the text from the last dot of the last path
\* component on, unless only dots precede that dot in the component.
splitext_ext(p) ==
  LET sepIndex == rfind(p, "/")
      dotIndex == rfind(p, ".")
  IN IF /\ dotIndex > sepIndex
        /\ \E filenameIndex \in (sepIndex + 1)..(dotIndex - 1) : p[filenameIndex] # "."
     THEN SubSeq(p, dotIndex, Len(p))
     ELSE <<>>

ALLOWED_EXTENSIONS ==
  { <<".","p","d","f">>, <<".","d","o","c","x">>, <<".","t","x","t">>,
    <<".","j","p","g">>, <<".","j","p","e","g">>, <<".","p","n","g">> }

MAX_FILENAME_LENGTH == 255

\* re.match(r'^[a-zA-Z0-9_\-\.]+$', file_name): one or more characters of the
\* class; `$` also matches before one trailing newline.
FilenameCharsMatch(file_name) ==
  LET class == Letters \cup Digits \cup {"_", "-", "."}
      body == IF Len(file_name) > 0 /\ file_name[Len(file_name)] = "\n"
              THEN SubSeq(file_name, 1, Len(file_name) - 1)
              ELSE file_name
  IN /\ Len(body) >= 1
     /\ \A i \in 1..Len(body) : body[i] \in class

\* Faulty variant, used to show the property is sensitive: the extension test is skipped.
is_valid_filename_any_extension(file_name) ==
  IF Len(file_name) > MAX_FILENAME_LENGTH THEN FALSE
  ELSE IF ~FilenameCharsMatch(file_name) THEN FALSE
  ELSE TRUE

is_valid_filename(file_name) ==
  IF lower(splitext_ext(file_name)) \notin ALLOWED_EXTENSIONS THEN FALSE
  ELSE IF Len(file_name) > MAX_FILENAME_LENGTH THEN FALSE
  ELSE IF ~FilenameCharsMatch(file_name) THEN FALSE
  ELSE TRUE

\* A name of MAX_FILENAME_LENGTH + 1 characters ending in ".pdf".
LongName ==
  [i \in 1..(MAX_FILENAME_LENGTH + 1) |->
     CASE i = MAX_FILENAME_LENGTH - 2 -> "."
       [] i = MAX_FILENAME_LENGTH - 1 -> "p"
       [] i = MAX_FILENAME_LENGTH -> "d"
       [] i = MAX_FILENAME_LENGTH + 1 -> "f"
       [] OTHER -> "a"]

\* file_name arguments of the model.
FileNames ==
  { <<"a",".","p","d","f">>,
    <<"b","_","1",".","P","D","F">>,
    <<"r","e","p","o","r","t",".","e","x","e">>,
    <<".","p","d","f">>,
    <<"a"," ","b",".","p","d","f">>,
    LongName }

\* file_content arguments of the model (byte strings).
Contents == { <<37, 80, 68, 70>>, <<137, 80>> }

\* get_file_hash: SHA-256 of the content, as an ideal (collision-free) hash.
get_file_hash(file_content) == <<"sha256", file_content>>

Digests == {get_file_hash(c) : c \in Contents}

\* What get_cache returns for a missing key.
NoneName == <<"None">>

(***************************************************************************)
(* Upload deduplication: S3Facade.upload_pdf_form_with_caching             *)
(***************************************************************************)
\* Service processes that share the Redis cache and the form bucket.
Workers == {1, 2}

\* What a call has done so far: cache reads and writes, bucket puts, and
\* whether its exists_cache test found the digest.
NoOps == [reads |-> 0, writes |-> 0, puts |-> 0, hit |-> FALSE]

NoUploadArgs == [file_content |-> <<>>, file_name |-> <<>>]

\* A finished call, as the history variables remember it.
CallRecord(args, res) ==
  [valid |-> TRUE, file_content |-> args.file_content, file_name |-> args.file_name,
   res |-> res]

NoCall == [valid |-> FALSE, file_content |-> <<>>, file_name |-> <<>>, res |-> Pending]

\* TRUE when no worker other than w is inside a call.
OthersQuiet(w) == \A v \in Workers \ {w} : uPc[v] \in {"idle", "done"}

\* RedisFacade.exists_cache / get_cache / set_cache on the cache contents.
exists_cache(c, key) == c[key] # <<>>

get_cache(c, key) == IF c[key] = <<>> THEN NoneName ELSE c[key][1]

set_cache(c, key, value) == [c EXCEPT ![key] = <<value>>]

\* Faulty variant, used to show the property is sensitive: the object never arrives in the form bucket.
put_object_lost(b, key, body) == b

\* s3.put_object(Bucket, Key, Body) on the bucket contents.
put_object(b, key, body) == [b EXCEPT ![key] = <<body>>]

\* Faulty variant, used to show the property is sensitive: the upload branch is taken whatever the cache says.
AfterExists_always_upload(found) == "put"

\* Line 65: where the call goes after the exists_cache test.
AfterExists(found) == IF found THEN "get" ELSE "put"

\* Lines 59-63: the call starts; the file name is validated, then the
\* content is hashed.  A request goes to the first free worker (the workers
\* are interchangeable).
UploadCall(w, file_content, file_name) ==
  /\ uPc[w] = "idle"
  /\ \A v \in Workers : v < w => uPc[v] # "idle"
  /\ uCalls < MaxCalls
  /\ uCalls' = uCalls + 1
  /\ uArgs' = [uArgs EXCEPT ![w] = [file_content |-> file_content, file_name |-> file_name]]
  /\ uOps' = [uOps EXCEPT ![w] = NoOps]
  /\ IF ~is_valid_filename(file_name)
     THEN /\ uRet' = [uRet EXCEPT ![w] = Raised(Exc("ValueError", "Invalid file name", <<>>))]
          /\ uPc' = [uPc EXCEPT ![w] = "done"]
          /\ uHash' = [uHash EXCEPT ![w] = <<>>]
          /\ uLast' = NoCall
     ELSE /\ uRet' = [uRet EXCEPT ![w] = Pending]
          /\ uPc' = [uPc EXCEPT ![w] = "exists"]
          /\ uHash' = [uHash EXCEPT ![w] = get_file_hash(file_content)]
          /\ uLast' = uLast
  \* history: this call follows uLast sequentially when nobody else is
  \* inside a call; it overlaps every call that is running now.
  /\ uPrev' = [v \in Workers |->
                 IF v = w THEN (IF OthersQuiet(w) THEN uLast ELSE NoCall) ELSE NoCall]
  /\ UNCHANGED <<cache, blob, uExpiries>>
  /\ UNCHANGED NotUpload

\* Line 65: redis_client.exists_cache(file_hash).
ExistsCache(w) ==
  /\ uPc[w] = "exists"
  /\ uPc' = [uPc EXCEPT ![w] = AfterExists(exists_cache(cache, uHash[w]))]
  /\ uOps' = [uOps EXCEPT ![w].reads = @ + 1, ![w].hit = cache[uHash[w]] # <<>>]
  /\ UNCHANGED <<cache, blob, uArgs, uHash, uRet, uLast, uPrev, uCalls, uExpiries>>
  /\ UNCHANGED NotUpload

\* Lines 66-68: redis_client.get_cache(file_hash) and return of its value.
GetCache(w) ==
  /\ uPc[w] = "get"
  /\ LET existing_file_name == get_cache(cache, uHash[w])
     IN /\ uRet' = [uRet EXCEPT ![w] = Returned(existing_file_name)]
        /\ uLast' = CallRecord(uArgs[w], Returned(existing_file_name))
  /\ uPc' = [uPc EXCEPT ![w] = "done"]
  /\ uOps' = [uOps EXCEPT ![w].reads = @ + 1]
  /\ UNCHANGED <<cache, blob, uArgs, uHash, uPrev, uCalls, uExpiries>>
  /\ UNCHANGED NotUpload

\* Faulty variant, used to show the property is sensitive: a failed put is
\* ignored and the call goes on to write the cache entry.
PutObject_failure_ignored(w, ok) ==
  /\ uPc[w] = "put"
  /\ blob' = IF ok THEN put_object(blob, uArgs[w].file_name, uArgs[w].file_content)
             ELSE blob
  /\ uPc' = [uPc EXCEPT ![w] = "set"]
  /\ uOps' = IF ok THEN [uOps EXCEPT ![w].puts = @ + 1] ELSE uOps
  /\ UNCHANGED <<cache, uArgs, uHash, uRet, uLast, uPrev, uCalls, uExpiries>>
  /\ UNCHANGED NotUpload

\* Lines 88-103: self.s3.put_object(...); a failure is re-raised as
\* Exception("Could not upload file ...").
PutObject(w, ok) ==
  /\ uPc[w] = "put"
  /\ IF ok
     THEN /\ blob' = put_object(blob, uArgs[w].file_name, uArgs[w].file_content)
          /\ uPc' = [uPc EXCEPT ![w] = "set"]
          /\ uRet' = uRet
          /\ uOps' = [uOps EXCEPT ![w].puts = @ + 1]
          /\ uLast' = uLast
     ELSE /\ blob' = blob
          /\ uPc' = [uPc EXCEPT ![w] = "done"]
          /\ uRet' = [uRet EXCEPT ![w] =
                        Raised(Exc("Exception", "Could not upload file",
                                   <<Exc("ClientError", "PutObject failed", <<>>)>>))]
          /\ uOps' = uOps
          /\ uLast' = NoCall
  /\ UNCHANGED <<cache, uArgs, uHash, uPrev, uCalls, uExpiries>>
  /\ UNCHANGED NotUpload

\* Lines 98-99: redis_client.set_cache(file_hash, file_name); return file_name.
SetCache(w) ==
  /\ uPc[w] = "set"
  /\ cache' = set_cache(cache, uHash[w], uArgs[w].file_name)
  /\ uRet' = [uRet EXCEPT ![w] = Returned(uArgs[w].file_name)]
  /\ uPc' = [uPc EXCEPT ![w] = "done"]
  /\ uOps' = [uOps EXCEPT ![w].writes = @ + 1]
  /\ uLast' = CallRecord(uArgs[w], Returned(uArgs[w].file_name))
  /\ UNCHANGED <<blob, uArgs, uHash, uPrev, uCalls, uExpiries>>
  /\ UNCHANGED NotUpload

\* The caller has the outcome; the worker is free for the next request.
UploadDone(w) ==
  /\ uPc[w] = "done"
  /\ uCalls < MaxCalls
  /\ uPc' = [uPc EXCEPT ![w] = "idle"]
  /\ uArgs' = [uArgs EXCEPT ![w] = NoUploadArgs]
  /\ uHash' = [uHash EXCEPT ![w] = <<>>]
  /\ uRet' = [uRet EXCEPT ![w] = Pending]
  /\ uOps' = [uOps EXCEPT ![w] = NoOps]
  /\ uPrev' = [uPrev EXCEPT ![w] = NoCall]
  /\ UNCHANGED <<cache, blob, uLast, uCalls, uExpiries>>
  /\ UNCHANGED NotUpload

\* setex(key, ttl, value): the entry disappears when its TTL has run out.
CacheExpire(d) ==
  /\ cache[d] # <<>>
  /\ uExpiries < MaxExpiries
  /\ uExpiries' = uExpiries + 1
  /\ cache' = [cache EXCEPT ![d] = <<>>]
  /\ uLast' = NoCall
  /\ uPrev' = [w \in Workers |-> NoCall]
  /\ UNCHANGED <<blob, uPc, uArgs, uHash, uRet, uOps, uCalls>>
  /\ UNCHANGED NotUpload

InitUpload ==
  /\ cache = [d \in Digests |-> <<>>]
  /\ blob = [n \in FileNames |-> <<>>]
  /\ uPc = [w \in Workers |-> "idle"]
  /\ uArgs = [w \in Workers |-> NoUploadArgs]
  /\ uHash = [w \in Workers |-> <<>>]
  /\ uRet = [w \in Workers |-> Pending]
  /\ uOps = [w \in Workers |-> NoOps]
  /\ uLast = NoCall
  /\ uPrev = [w \in Workers |-> NoCall]
  /\ uCalls = 0
  /\ uExpiries = 0

NextUpload ==
  \/ \E w \in Workers, file_content \in Contents, file_name \in FileNames :
       UploadCall(w, file_content, file_name)
  \/ \E w \in Workers : ExistsCache(w)
  \/ \E w \in Workers : GetCache(w)
  \/ \E w \in Workers, ok \in BOOLEAN : PutObject(w, ok)
  \/ \E w \in Workers : SetCache(w)
  \/ \E w \in Workers : UploadDone(w)
  \/ \E d \in Digests : CacheExpire(d)

\* A caller that waits for each upload to end before it issues the next one.
UploadCallSequential(w, file_content, file_name) ==
  /\ OthersQuiet(w)
  /\ UploadCall(w, file_content, file_name)

NextUploadSequential ==
  \/ \E w \in Workers, file_content \in Contents, file_name \in FileNames :
       UploadCallSequential(w, file_content, file_name)
  \/ \E w \in Workers : ExistsCache(w)
  \/ \E w \in Workers : GetCache(w)
  \/ \E w \in Workers, ok \in BOOLEAN : PutObject(w, ok)
  \/ \E w \in Workers : SetCache(w)
  \/ \E w \in Workers : UploadDone(w)

(***************************************************************************)
(* Schema upload: router.upload_schema and S3Facade.upload_schema          *)
(***************************************************************************)
\* payload.key and payload.data_schema of the requests (a schema is named
\* by the title it declares).
SchemaPayloads ==
  { [key |-> k, data_schema |-> d] :
      k \in {"resume", "card"}, d \in {"Resume", "Card"} }

NoPayload == [key |-> "", data_schema |-> ""]

\* json.dump(schema, file): the text of the document.
json_dump(schema) == <<"{", schema, "}">>

\* json.loads(text): the parsed document; the empty text is not JSON.
json_loads(text) ==
  IF Len(text) = 3 /\ text[1] = "{" /\ text[3] = "}"
  THEN Returned(text[2])
  ELSE Raised(Exc("JSONDecodeError", "Expecting value", <<>>))

\* f"{schema_key}.json", the object key of S3Facade.upload_schema and the
\* schema_file of JsonSchemaStrategy.
SchemaObjectKey(key) == <<key, ".json">>

\* router.py lines 61-73: the request arrives and open("schema.json", "w")
\* truncates the staging file.
UploadSchemaOpen(w, payload) ==
  /\ sPc[w] = "idle"
  /\ sReqs < MaxSchemaRequests
  /\ sReqs' = sReqs + 1
  /\ sPayload' = [sPayload EXCEPT ![w] = payload]
  /\ schema_json' = <<>>
  /\ sPc' = [sPc EXCEPT ![w] = "dump"]
  /\ UNCHANGED <<schema_bucket, sBody, sResp>>
  /\ UNCHANGED NotSchema

\* Lines 73-74: json.dump(schema, file) and the close of the file.
UploadSchemaDump(w) ==
  /\ sPc[w] = "dump"
  /\ schema_json' = json_dump(sPayload[w].data_schema)
  /\ sPc' = [sPc EXCEPT ![w] = "read"]
  /\ UNCHANGED <<schema_bucket, sPayload, sBody, sResp, sReqs>>
  /\ UNCHANGED NotSchema

\* S3Facade.upload_schema lines 117-118: byte_content = f.read() of
\* schema.json.
UploadSchemaRead(w) ==
  /\ sPc[w] = "read"
  /\ sBody' = [sBody EXCEPT ![w] = schema_json]
  /\ sPc' = [sPc EXCEPT ![w] = "put"]
  /\ UNCHANGED <<schema_json, schema_bucket, sPayload, sResp, sReqs>>
  /\ UNCHANGED NotSchema

\* S3Facade.upload_schema lines 120-131 and router.py lines 82-96:
\* put_object under "<key>.json" and the 200 response, or the put fails and
\* the response is 500.
UploadSchemaPut(w, ok) ==
  /\ sPc[w] = "put"
  /\ IF ok
     THEN /\ schema_bucket' =
               [schema_bucket EXCEPT ![SchemaObjectKey(sPayload[w].key)] = <<sBody[w]>>]
          /\ sResp' = [sResp EXCEPT ![w] = 200]
     ELSE /\ schema_bucket' = schema_bucket
          /\ sResp' = [sResp EXCEPT ![w] = 500]
  /\ sPc' = [sPc EXCEPT ![w] = "done"]
  /\ UNCHANGED <<schema_json, sPayload, sBody, sReqs>>
  /\ UNCHANGED NotSchema

\* The client has the response; the worker takes the next request.
UploadSchemaDone(w) ==
  /\ sPc[w] = "done"
  /\ sReqs < MaxSchemaRequests
  /\ sPc' = [sPc EXCEPT ![w] = "idle"]
  /\ sPayload' = [sPayload EXCEPT ![w] = NoPayload]
  /\ sBody' = [sBody EXCEPT ![w] = <<>>]
  /\ sResp' = [sResp EXCEPT ![w] = 0]
  /\ UNCHANGED <<schema_json, schema_bucket, sReqs>>
  /\ UNCHANGED NotSchema

InitSchema ==
  /\ schema_json = <<>>
  /\ schema_bucket = [k \in {SchemaObjectKey(p.key) : p \in SchemaPayloads} |-> <<>>]
  /\ sPc = [w \in Workers |-> "idle"]
  /\ sPayload = [w \in Workers |-> NoPayload]
  /\ sBody = [w \in Workers |-> <<>>]
  /\ sResp = [w \in Workers |-> 0]
  /\ sReqs = 0

NextSchema ==
  \/ \E w \in Workers, payload \in SchemaPayloads : UploadSchemaOpen(w, payload)
  \/ \E w \in Workers : UploadSchemaDump(w)
  \/ \E w \in Workers : UploadSchemaRead(w)
  \/ \E w \in Workers, ok \in BOOLEAN : UploadSchemaPut(w, ok)
  \/ \E w \in Workers : UploadSchemaDone(w)

(***************************************************************************)
(* Asynchronous OCR job: start_async_textract_detection and                *)
(* get_async_textract_results (text_extractor.py)                          *)
(***************************************************************************)
\* Faulty variant, used to show the property is sensitive: a shorter wait.
POLL_INTERVAL_short == 2 + 1

POLL_INTERVAL == 5

\* JobStatus values the provider reports for a started job.
JobStatuses == {"IN_PROGRESS", "SUCCEEDED", "FAILED", "PARTIAL_SUCCESS"}

\* Errors a provider call can raise: the two the code catches and one it
\* does not.
ProviderErrors ==
  { Exc("ClientError", "ThrottlingException", <<>>),
    Exc("NoCredentialsError", "Unable to locate credentials", <<>>),
    Exc("EndpointConnectionError", "Could not connect to the endpoint", <<>>) }

\* The clause `except (NoCredentialsError, ClientError)`.
IsCaughtProviderError(e) == e.type \in {"NoCredentialsError", "ClientError"}

\* The response of get_document_text_detection: its JobStatus, and which
\* check of the call it answers.
StatusResponse(status, n) == Val("map", status, <<<<"check", n>>>>)

PollEntry(ev, res, dur, at) == [ev |-> ev, res |-> res, dur |-> dur, at |-> at]

\* Faulty variant, used to show the property is sensitive: every status other than IN_PROGRESS and FAILED ends the loop
\* with a result.
PollOnStatus_any_end(status) ==
  IF status = "IN_PROGRESS" THEN "sleep"
  ELSE IF status = "FAILED" THEN "raise"
  ELSE "return"

\* Faulty variant, used to show the property is sensitive: SUCCEEDED does
\* not end the loop.
PollOnStatus_never_return(status) ==
  IF status = "FAILED" THEN "raise" ELSE "sleep"

\* Lines 63-71: what the loop does with a reported status.
PollOnStatus(status) ==
  IF status = "SUCCEEDED" THEN "return"
  ELSE IF status = "FAILED" THEN "raise"
  ELSE "sleep"

\* Faulty variant, used to show the property is sensitive: the poll is
\* entered whatever the submission did.
SubmitNext_always_poll(outcome) == "poll"

\* async_text_detection, lines 110-113: get_async_textract_results is
\* called only when start_async_textract_detection returned a job id; an
\* exception of the submission leaves the try block before line 113.
SubmitNext(outcome) == IF outcome.kind = "return" THEN "poll" ELSE "done"

\* Lines 39-45: start_document_text_detection; a caught provider error is
\* re-raised as Exception("Could not start Textract text detection").
StartJob(outcome) ==
  /\ pPc = "idle"
  /\ pJobs < MaxJobs
  /\ pJobs' = pJobs + 1
  /\ pChecks' = 0
  /\ pNow' = 0
  /\ pPc' = SubmitNext(outcome)
  /\ IF outcome.kind = "return"
     THEN /\ jobStatus' = "IN_PROGRESS"
          /\ pResult' = Pending
          /\ pLog' = <<PollEntry("submit", outcome, 0, 0)>>
     ELSE /\ jobStatus' = "NONE"
          /\ pResult' = IF IsCaughtProviderError(outcome.exc)
                        THEN Raised(Exc("Exception", "Could not start Textract text detection",
                                        <<outcome.exc>>))
                        ELSE outcome
          /\ pLog' = <<PollEntry("submit", outcome, 0, 0)>>
  /\ UNCHANGED NotPoll

\* The provider finishes the job.
ProviderFinish(status) ==
  /\ jobStatus = "IN_PROGRESS"
  /\ status \in JobStatuses \ {"IN_PROGRESS"}
  /\ jobStatus' = status
  /\ UNCHANGED <<pPc, pLog, pNow, pResult, pChecks, pJobs>>
  /\ UNCHANGED NotPoll

\* Lines 60-68 and 73-74: one status check and what follows from it.
\* call is what the provider call did: it answered, or it raised.
StatusCheck(call) ==
  /\ pPc = "poll"
  /\ pChecks < MaxChecks
  /\ pChecks' = pChecks + 1
  /\ pLog' = Append(pLog, PollEntry("check", call, 0, pNow))
  /\ IF call.kind = "raise"
     THEN /\ pPc' = "done"
          /\ pResult' = IF IsCaughtProviderError(call.exc)
                        THEN Raised(Exc("Exception", "Error fetching Textract results",
                                        <<call.exc>>))
                        ELSE call
     ELSE LET todo == PollOnStatus(call.val[1].v)
          IN IF todo = "return"
             THEN /\ pPc' = "done"
                  /\ pResult' = Returned(call.val[1])
             ELSE IF todo = "raise"
             THEN /\ pPc' = "done"
                  /\ pResult' = Raised(Exc("Exception", "Textract text detection failed.", <<>>))
             ELSE /\ pPc' = "sleep"
                  /\ pResult' = Pending
  /\ UNCHANGED <<jobStatus, pNow, pJobs>>
  /\ UNCHANGED NotPoll

\* Line 71: time.sleep(5), then the loop body again.
PollSleep ==
  /\ pPc = "sleep"
  /\ pChecks <= MaxChecks
  /\ pNow' = pNow + POLL_INTERVAL
  /\ pLog' = Append(pLog, PollEntry("sleep", Pending, POLL_INTERVAL, pNow))
  /\ pPc' = "poll"
  /\ UNCHANGED <<jobStatus, pResult, pChecks, pJobs>>
  /\ UNCHANGED NotPoll

\* The caller has the outcome; a later request may submit another job.
PollDone ==
  /\ pPc = "done"
  /\ pJobs < MaxJobs
  /\ pPc' = "idle"
  /\ jobStatus' = "NONE"
  /\ pLog' = <<>>
  /\ pNow' = 0
  /\ pResult' = Pending
  /\ pChecks' = 0
  /\ UNCHANGED pJobs
  /\ UNCHANGED NotPoll

\* The loop of lines 59-71 has no attempt counter and no deadline: checks
\* beyond the MaxChecks recorded ones behave like every other check.  Their
\* number is not counted further (pChecks = MaxChecks + 1 stands for "more
\* than MaxChecks") and they are not added to the history.
StatusCheckMore(call) ==
  /\ pPc = "poll"
  /\ pChecks >= MaxChecks
  /\ pChecks' = MaxChecks + 1
  /\ IF call.kind = "raise"
     THEN /\ pPc' = "done"
          /\ pResult' = IF IsCaughtProviderError(call.exc)
                        THEN Raised(Exc("Exception", "Error fetching Textract results",
                                        <<call.exc>>))
                        ELSE call
     ELSE LET todo == PollOnStatus(call.val[1].v)
          IN IF todo = "return"
             THEN /\ pPc' = "done"
                  /\ pResult' = Returned(call.val[1])
             ELSE IF todo = "raise"
             THEN /\ pPc' = "done"
                  /\ pResult' = Raised(Exc("Exception", "Textract text detection failed.", <<>>))
             ELSE /\ pPc' = "sleep"
                  /\ pResult' = Pending
  /\ UNCHANGED <<jobStatus, pNow, pLog, pJobs>>
  /\ UNCHANGED NotPoll

\* Line 71 after an uncounted check; the clock is not advanced further.
PollSleepMore ==
  /\ pPc = "sleep"
  /\ pChecks > MaxChecks
  /\ pPc' = "poll"
  /\ UNCHANGED <<jobStatus, pLog, pNow, pResult, pChecks, pJobs>>
  /\ UNCHANGED NotPoll

InitPoll ==
  /\ pPc = "idle"
  /\ jobStatus = "NONE"
  /\ pLog = <<>>
  /\ pNow = 0
  /\ pResult = Pending
  /\ pChecks = 0
  /\ pJobs = 0

\* The answers a status check can get in the current state.
CheckOutcomes ==
  {Returned(StatusResponse(jobStatus, pChecks + 1))} \cup {Raised(e) : e \in ProviderErrors}

SubmitOutcomes ==
  {Returned(Prim("job-id"))} \cup {Raised(e) : e \in ProviderErrors}

NextPoll ==
  \/ \E outcome \in SubmitOutcomes : StartJob(outcome)
  \/ \E status \in JobStatuses : ProviderFinish(status)
  \/ \E call \in CheckOutcomes : StatusCheck(call)
  \/ PollSleep
  \/ PollDone

(***************************************************************************)
(* Block graph reader and form field reconstructor (text_extractor.py)     *)
(*                                                                         *)
(* A Python str is a sequence of atoms: a word atom holds no white space,  *)
(* " " is one space and "\n" one line break; "" is <<>>.  A dict is the    *)
(* sequence of its items [k, v] in insertion order.                        *)
(***************************************************************************)
WhiteSpace == {" ", "\n"}

\* sep.join(parts)
RECURSIVE join(_, _)
join(sep, parts) ==
  IF parts = <<>> THEN <<>>
  ELSE IF Len(parts) = 1 THEN parts[1]
  ELSE parts[1] \o sep \o join(sep, Tail(parts))

RECURSIVE lstrip(_)
lstrip(s) == IF s # <<>> /\ Head(s) \in WhiteSpace THEN lstrip(Tail(s)) ELSE s

RECURSIVE rstrip(_)
rstrip(s) ==
  IF s # <<>> /\ s[Len(s)] \in WhiteSpace THEN rstrip(SubSeq(s, 1, Len(s) - 1)) ELSE s

\* Faulty variant, used to show the property is sensitive: only leading whitespace is removed.
strip_leading_only(s) == lstrip(s)

\* str.strip()
strip(s) == rstrip(lstrip(s))

\* d.get(k, default)
dict_get(d, k, default) ==
  IF \E i \in 1..Len(d) : d[i].k = k
  THEN d[CHOOSE i \in 1..Len(d) : d[i].k = k].v
  ELSE default

\* Faulty variant, used to show the property is sensitive: an existing key
\* keeps its value (dict.setdefault).
dict_set_keep_first(d, k, v) ==
  IF \E i \in 1..Len(d) : d[i].k = k
  THEN d
  ELSE Append(d, [k |-> k, v |-> v])

\* d[k] = v: an existing key keeps its place, a new one goes last.
dict_set(d, k, v) ==
  IF \E i \in 1..Len(d) : d[i].k = k
  THEN [d EXCEPT ![CHOOSE i \in 1..Len(d) : d[i].k = k].v = v]
  ELSE Append(d, [k |-> k, v |-> v])

\* The dict as a mapping: what == compares.
dict_items(d) == {d[i] : i \in 1..Len(d)}

\* One block of a Textract response; a key the provider leaves out is <<>>
\* (Text, SelectionStatus, Relationships) or {} (EntityTypes).
Block(id, type, entity, text, status, rels) ==
  [Id |-> id, BlockType |-> type, EntityTypes |-> entity, Text |-> text,
   SelectionStatus |-> status, Relationships |-> rels]

Rel(type, ids) == [Type |-> type, Ids |-> ids]

\* The blocks responses are made of.  Ids are unique; "v9" names a block
\* that is in no response.
BlockPool ==
  { Block("w1", "WORD", {}, <<"Name:">>, <<>>, <<>>),
    Block("w2", "WORD", {}, <<"Aria">>, <<>>, <<>>),
    Block("l2", "LINE", {}, <<"Agree">>, <<>>, <<>>),
    Block("s1", "SELECTION_ELEMENT", {}, <<>>, <<"SELECTED">>, <<>>),
    Block("l1", "LINE", {}, <<"Name:", " ", "Aria">>, <<>>, <<>>),
    Block("k1", "KEY_VALUE_SET", {"KEY"}, <<>>, <<>>,
          <<Rel("VALUE", <<"v1">>), Rel("CHILD", <<"w1">>)>>),
    Block("k2", "KEY_VALUE_SET", {"KEY"}, <<>>, <<>>,
          <<Rel("CHILD", <<"w1">>), Rel("VALUE", <<"v2", "v1", "v9">>)>>),
    Block("k3", "KEY_VALUE_SET", {"KEY"}, <<>>, <<>>,
          <<Rel("CHILD", <<"s1", "w2">>)>>),
    Block("v1", "KEY_VALUE_SET", {"VALUE"}, <<>>, <<>>,
          <<Rel("CHILD", <<"w2", "s1">>)>>),
    Block("v2", "KEY_VALUE_SET", {"VALUE"}, <<>>, <<>>, <<>>) }

\* The responses: up to MaxBlocks different blocks in any order.
BlockLists ==
  UNION { { b \in [1..n -> BlockPool] : \A i, j \in 1..n : b[i] = b[j] => i = j }
          : n \in 0..MaxBlocks }

\* Faulty variant, used to show the property is sensitive: selection
\* elements are left out of the map.
RECURSIVE map_word_ids_words_only(_, _)
map_word_ids_words_only(blocks, word_map) ==
  IF blocks = <<>> THEN word_map
  ELSE map_word_ids_words_only(
         Tail(blocks),
         IF Head(blocks).BlockType = "WORD"
         THEN dict_set(word_map, Head(blocks).Id, Head(blocks).Text)
         ELSE word_map)

\* map_word_ids, lines 355-361.
RECURSIVE map_word_ids_from(_, _)
map_word_ids_from(blocks, word_map) ==
  IF blocks = <<>> THEN word_map
  ELSE LET block == Head(blocks)
           m1 == IF block.BlockType = "WORD"
                 THEN dict_set(word_map, block.Id, block.Text)
                 ELSE word_map
           m2 == IF block.BlockType = "SELECTION_ELEMENT"
                 THEN dict_set(m1, block.Id, block.SelectionStatus)
                 ELSE m1
       IN map_word_ids_from(Tail(blocks), m2)

map_word_ids(blocks) == map_word_ids_from(blocks, <<>>)

\* Faulty variant, used to show the property is sensitive: each text is put
\* in front of the ones found before it.
RECURSIVE extract_text_by_type_reversed(_, _)
extract_text_by_type_reversed(blocks, block_type) ==
  IF blocks = <<>> THEN <<>>
  ELSE IF Head(blocks).BlockType = block_type
       THEN extract_text_by_type_reversed(Tail(blocks), block_type) \o <<Head(blocks).Text>>
       ELSE extract_text_by_type_reversed(Tail(blocks), block_type)

\* extract_text_by_type, lines 89-93.
RECURSIVE extract_text_by_type(_, _)
extract_text_by_type(blocks, block_type) ==
  IF blocks = <<>> THEN <<>>
  ELSE IF Head(blocks).BlockType = block_type
       THEN <<Head(blocks).Text>> \o extract_text_by_type(Tail(blocks), block_type)
       ELSE extract_text_by_type(Tail(blocks), block_type)

\* " ".join([word_map.get(i, "") for i in relation["Ids"]])
WordsText(word_map, ids) ==
  join(<<" ">>, [i \in 1..Len(ids) |-> dict_get(word_map, ids[i], <<>>)])

\* The loops over block["Relationships"]: the Ids of the last relation of
\* the type as <<Ids>>, or <<>> when there is none.
RECURSIVE LastRelation(_, _, _)
LastRelation(rels, type, found) ==
  IF rels = <<>> THEN found
  ELSE LastRelation(Tail(rels), type,
                    IF Head(rels).Type = type THEN <<Head(rels).Ids>> ELSE found)

\* Faulty variant, used to show the property is sensitive: an unresolved id
\* contributes nothing.
MISSING_VALUE_empty == <<>>

\* Line 339: the default of value_map.get(vid, "N/A").
MISSING_VALUE == <<"N/A">>

\* Lines 306-335, the first pass: key_map and value_map.
RECURSIVE FirstPass(_, _, _)
FirstPass(blocks, word_map, maps) ==
  IF blocks = <<>> THEN maps
  ELSE LET block == Head(blocks)
           child == LastRelation(block.Relationships, "CHILD", <<>>)
           value == LastRelation(block.Relationships, "VALUE", <<>>)
           key_text == IF child = <<>> THEN <<>> ELSE WordsText(word_map, child[1])
           value_ids == IF value = <<>> THEN <<>> ELSE value[1]
           next ==
             IF block.BlockType # "KEY_VALUE_SET" THEN maps
             ELSE IF "KEY" \in block.EntityTypes
             THEN IF key_text # <<>>
                  THEN [maps EXCEPT !.key_map = dict_set(@, key_text, value_ids)]
                  ELSE maps
             ELSE IF "VALUE" \in block.EntityTypes /\ child # <<>>
             THEN [maps EXCEPT !.value_map =
                                 dict_set(@, block.Id, WordsText(word_map, child[1]))]
             ELSE maps
       IN FirstPass(Tail(blocks), word_map, next)

\* Lines 338-340, the second pass over key_map.items().
RECURSIVE SecondPass(_, _, _)
SecondPass(key_items, value_map, final_map) ==
  IF key_items = <<>> THEN final_map
  ELSE LET key == Head(key_items).k
           value_ids == Head(key_items).v
           value_text ==
             join(<<" ">>, [i \in 1..Len(value_ids) |->
                             dict_get(value_map, value_ids[i], MISSING_VALUE)])
       IN SecondPass(Tail(key_items), value_map,
                     dict_set(final_map, key, strip(value_text)))

\* Faulty variant, used to show the property is sensitive: one pass, every
\* KEY joined with the VALUE blocks seen before it.
RECURSIVE SinglePass(_, _, _, _)
SinglePass(blocks, word_map, value_map, final_map) ==
  IF blocks = <<>> THEN final_map
  ELSE LET one == FirstPass(<<Head(blocks)>>, word_map,
                            [key_map |-> <<>>, value_map |-> value_map])
       IN SinglePass(Tail(blocks), word_map, one.value_map,
                     SecondPass(one.key_map, one.value_map, final_map))

extract_form_fields_single_pass(blocks, word_map) ==
  SinglePass(blocks, word_map, <<>>, <<>>)

\* extract_form_fields_advanced, lines 290-342 (the definition in force;
\* the one at lines 212-266 is replaced by it).
extract_form_fields_advanced(blocks, word_map) ==
  LET maps == FirstPass(blocks, word_map, [key_map |-> <<>>, value_map |-> <<>>])
  IN SecondPass(maps.key_map, maps.value_map, <<>>)

\* Lines 155-163: the lines of the formatted text, joined by "\n".
RECURSIVE FieldLines(_)
FieldLines(items) ==
  IF items = <<>> THEN <<>>
  ELSE <<(<<"- ">> \o Head(items).k \o <<": ">> \o Head(items).v)>>
       \o FieldLines(Tail(items))

\* process_response, lines 146-169.
process_response(blocks) ==
  LET word_map == map_word_ids(blocks)
      lines == extract_text_by_type(blocks, "LINE")
      form_fields == extract_form_fields_advanced(blocks, word_map)
      text_output == <<(<<"Extracted Form Fields:">>)>> \o FieldLines(form_fields)
                     \o <<(<<"\n", "Extracted Text Lines:">>)>> \o lines
  IN [word_map |-> word_map, lines |-> lines, form_fields |-> form_fields,
      formatted_text |-> join(<<"\n">>, text_output)]

NoOutput == [word_map |-> <<>>, lines |-> <<>>, form_fields |-> <<>>,
             formatted_text |-> <<>>]

\* The provider's response arrives (lines 113 and 175).
ReceiveResponse ==
  /\ bPc = "idle"
  /\ bPc' = "received"
  /\ \E blocks \in BlockLists : bBlocks' = blocks
  /\ bOut' = NoOutput
  /\ UNCHANGED NotReader

\* process_response(response), lines 119 and 179.
ProcessResponse ==
  /\ bPc = "received"
  /\ bPc' = "processed"
  /\ bOut' = process_response(bBlocks)
  /\ UNCHANGED bBlocks
  /\ UNCHANGED NotReader

\* The text went to the caller; the next response can come.
ReaderDone ==
  /\ bPc = "processed"
  /\ bPc' = "idle"
  /\ bBlocks' = <<>>
  /\ bOut' = NoOutput
  /\ UNCHANGED NotReader

InitReader ==
  /\ bPc = "idle"
  /\ bBlocks = <<>>
  /\ bOut = NoOutput

NextReader ==
  \/ ReceiveResponse
  \/ ProcessResponse
  \/ ReaderDone

(***************************************************************************)
(* Table reconstruction.  The module that holds it (text_extractor2,       *)
(* imported by router.py) is not among the sources; it is modelled from    *)
(* the design document, sections 3 (Table) and 4.1 (extractTables).        *)
(***************************************************************************)
\* A TABLE or CELL block; a TABLE carries 0 for the three CELL attributes.
TableBlock(id, type, row_index, column_index, columns, rels) ==
  [Id |-> id, BlockType |-> type, RowIndex |-> row_index,
   ColumnIndex |-> column_index, Columns |-> columns, Relationships |-> rels]

\* Two tables and the cells of a 2 x 2 grid; the cell c12 has no CHILD
\* relationship.
TableBlockPool ==
  { TableBlock("t1", "TABLE", 0, 0, 0, <<>>),
    TableBlock("t2", "TABLE", 0, 0, 0, <<>>),
    TableBlock("c11", "CELL", 1, 1, 2, <<Rel("CHILD", <<"w1">>)>>),
    TableBlock("c12", "CELL", 1, 2, 2, <<>>),
    TableBlock("c21", "CELL", 2, 1, 2, <<Rel("CHILD", <<"w2", "w1">>)>>),
    TableBlock("c22", "CELL", 2, 2, 2, <<Rel("CHILD", <<"w2">>)>>) }

\* The word map handed to extractTables.
TableWordMap == <<[k |-> "w1", v |-> <<"Name:">>], [k |-> "w2", v |-> <<"Aria">>]>>

\* The responses: up to MaxTableBlocks different blocks; cells come after
\* the TABLE block they belong to, so a response with blocks starts with a
\* TABLE block.
TableBlockLists ==
  UNION { { b \in [1..n -> TableBlockPool] :
              /\ \A i, j \in 1..n : b[i] = b[j] => i = j
              /\ n > 0 => b[1].BlockType = "TABLE" }
          : n \in 0..MaxTableBlocks }

\* Faulty variant, used to show the property is sensitive: a cell without
\* CHILD relationship gives the empty string.
CELL_PLACEHOLDER_empty == <<>>

\* Section 4.1: a CELL whose CHILD relationship is absent is resolved to a
\* single space character.
CELL_PLACEHOLDER == <<" ">>

\* The text of a cell.
CellText(block, word_map) ==
  LET child == LastRelation(block.Relationships, "CHILD", <<>>)
  IN IF child = <<>> THEN CELL_PLACEHOLDER ELSE WordsText(word_map, child[1])

\* The state of the single pass: the tables so far, the current row buffer
\* and the current row index.
TableState(tables, row, row_index) == [tables |-> tables, row |-> row, row_index |-> row_index]

\* A row is flushed into the current (last) table.
FlushRow(tables, row) ==
  IF tables = <<>> THEN tables
  ELSE [tables EXCEPT ![Len(tables)].v = Append(@, row)]

\* Faulty variant, used to show the property is sensitive: a table is
\* registered by its first row, not by its TABLE block.
OnTable_registered_by_first_row(st) == TableState(st.tables, <<>>, 0)

\* Section 3 and 4.1: a new table begins at each TABLE block; it registers
\* with an empty row list under a freshly generated key.
OnTable(st) ==
  TableState(Append(st.tables, [k |-> <<"table", Len(st.tables) + 1>>, v |-> <<>>]), <<>>, 0)

\* Section 3: rows are delimited by changes in row_index; a row is flushed
\* into the table when its index changes or when the final cell
\* (column_index == columns) is seen.
OnCell(st, block, word_map) ==
  LET changed == block.RowIndex # st.row_index
      tables1 == IF changed /\ st.row # <<>> THEN FlushRow(st.tables, st.row) ELSE st.tables
      row1 == IF changed THEN <<>> ELSE st.row
      row2 == Append(row1, CellText(block, word_map))
  IN IF block.ColumnIndex = block.Columns
     THEN TableState(FlushRow(tables1, row2), <<>>, block.RowIndex)
     ELSE TableState(tables1, row2, block.RowIndex)

RECURSIVE ExtractTablesFrom(_, _, _)
ExtractTablesFrom(blocks, word_map, st) ==
  IF blocks = <<>> THEN st.tables
  ELSE LET block == Head(blocks)
           next == IF block.BlockType = "TABLE" THEN OnTable(st)
                   ELSE IF block.BlockType = "CELL" THEN OnCell(st, block, word_map)
                   ELSE st
       IN ExtractTablesFrom(Tail(blocks), word_map, next)

\* extractTables(blocks, wordMap) -> mapping of key -> Table
extractTables(blocks, word_map) ==
  ExtractTablesFrom(blocks, word_map, TableState(<<>>, <<>>, 0))

ReceiveTableBlocks ==
  /\ tPc = "idle"
  /\ tPc' = "received"
  /\ \E blocks \in TableBlockLists : tBlocks' = blocks
  /\ tOut' = <<>>
  /\ UNCHANGED NotTables

ExtractTables ==
  /\ tPc = "received"
  /\ tPc' = "extracted"
  /\ tOut' = extractTables(tBlocks, TableWordMap)
  /\ UNCHANGED tBlocks
  /\ UNCHANGED NotTables

TablesDone ==
  /\ tPc = "extracted"
  /\ tPc' = "idle"
  /\ tBlocks' = <<>>
  /\ tOut' = <<>>
  /\ UNCHANGED NotTables

InitTables ==
  /\ tPc = "idle"
  /\ tBlocks = <<>>
  /\ tOut = <<>>

NextTables ==
  \/ ReceiveTableBlocks
  \/ ExtractTables
  \/ TablesDone

(***************************************************************************)
(* The OCR step of a request (extract_text) and the HTTP handler           *)
(* extract_form_data (router.py)                                           *)
(***************************************************************************)
\* str.endswith(suffix)
endswith(str, suffix) ==
  /\ Len(str) >= Len(suffix)
  /\ SubSeq(str, Len(str) - Len(suffix) + 1, Len(str)) = suffix

PoolBlock(id) == CHOOSE b \in BlockPool : b.Id = id

\* The OCR responses of the request model: a filled form and a blank page.
RequestResponses ==
  { <<PoolBlock("l1"), PoolBlock("w1"), PoolBlock("w2"), PoolBlock("k1"), PoolBlock("v1")>>,
    <<>> }

\* What the provider does with the file of a request: it answers with a
\* response, or the OCR step fails in one of the four ways.
OcrScenario(kind, blocks, exc) == [kind |-> kind, blocks |-> blocks, exc |-> exc]

AsyncScenarios ==
  { OcrScenario("ok", blocks, NoExc) : blocks \in RequestResponses }
  \cup
  { OcrScenario("submit_rejected", <<>>,
                Exc("Exception", "Could not start Textract text detection", <<>>)),
    OcrScenario("job_failed", <<>>,
                Exc("Exception", "Textract text detection failed.", <<>>)),
    OcrScenario("status_error", <<>>,
                Exc("Exception", "Error fetching Textract results", <<>>)) }

SyncScenarios ==
  { OcrScenario("ok", blocks, NoExc) : blocks \in RequestResponses }
  \cup
  { OcrScenario("sync_error", <<>>, Exc("ClientError", "InvalidS3ObjectException", <<>>)) }

\* async_text_detection, lines 108-143: the formatted text, or every
\* exception wrapped into Exception("Could not extract text using Textract").
async_text_detection(scenario) ==
  IF scenario.kind = "ok"
  THEN Returned(process_response(scenario.blocks).formatted_text)
  ELSE Raised(Exc("Exception", "Could not extract text using Textract", <<scenario.exc>>))

\* sync_text_detection, lines 172-209: the formatted text; an error of the
\* provider call is returned as a message string, not raised.
sync_text_detection(scenario) ==
  IF scenario.kind = "ok"
  THEN Returned(process_response(scenario.blocks).formatted_text)
  ELSE Returned(<<"Invalid S3 Object: Unable to access the specified S3 object.">>)

\* Faulty variant, used to show the property is sensitive: the extension is compared as it is spelled.
UsesAsyncDetection_case_sensitive(file_name) == endswith(file_name, <<".", "p", "d", "f">>)

\* Line 378: the detection used for a file name.
UsesAsyncDetection(file_name) == endswith(lower(file_name), <<".", "p", "d", "f">>)

\* extract_text([file_name]), lines 375-396, given what the detection of the
\* file did: `response` is "" at line 375 and is returned at line 396; the
\* detection's text is bound to `result` and logged, and an exception of
\* the detection is caught and logged at lines 393-395.
extract_text(detection) == <<>>

\* The calls extract_text, through async_text_detection (lines 108-113) or
\* sync_text_detection (lines 172-177), makes for one file name: the submit
\* and, when it gave a job id, get_async_textract_results; or the one
\* synchronous call.  No branch calls the provider again after a failure.
ProviderCalls(file_name, scenario) ==
  IF UsesAsyncDetection(file_name)
  THEN IF scenario.kind = "submit_rejected"
       THEN <<"start_document_text_detection">>
       ELSE <<"start_document_text_detection", "get_async_textract_results">>
  ELSE <<"detect_document_text">>

\* The constructed file names of the requests (line 138): two PDFs, an
\* image, an executable, and a case type with a space in it.
RequestNames ==
  { <<"a",".","p","d","f">>,
    <<"b","_","1",".","P","D","F">>,
    <<"c",".","p","n","g">>,
    <<"r","e","p","o","r","t",".","e","x","e">>,
    <<"a"," ","b",".","p","d","f">> }

\* What upload_pdf_form_with_caching does for a valid name: it returns the
\* name, or the name an earlier upload of the same bytes was stored under,
\* or the put fails.
UploadOutcomes ==
  { Returned(n) : n \in {m \in RequestNames : is_valid_filename(m)} }
  \cup { Raised(Exc("Exception", "Could not upload file to S3", <<>>)) }

\* What process_form_data does: it returns the record, or raises
\* LLMProcessingError (lines 237-249 let no other exception out).
NormalizeOutcomes ==
  { Returned(PyDict(<<<<"name", Prim("Aria")>>>>)) }
  \cup { Raised(LLMProcessingError("Max retries exceeded", e)) : e \in ModelErrors }
  \cup { Raised(LLMProcessingError("Processing failed", Exc("KeyError", "'invoice'", <<>>))) }

\* str(e) of an exception: its message.
exc_str(e) == e.msg

\* An HTTP response: status and the fields of its JSON body (a field the
\* body does not have is "" or <<>>).
HttpResponse(status, error, details, original_error, form_text_data, extracted) ==
  [status |-> status,
   body |-> [error |-> error, details |-> details, original_error |-> original_error,
             form_text_data |-> form_text_data, extracted_form_data |-> extracted]]

NoResponse == HttpResponse(0, "", "", "", <<>>, <<>>)

\* Faulty variant, used to show the property is sensitive: every exception
\* is answered as an unexpected one.
StatusFor_always_500(e) == 500

\* router.py lines 171-186: the except clause an exception of the try block
\* reaches.
StatusFor(e) == IF e.type = "LLMProcessingError" THEN 400 ELSE 500

\* Lines 171-186: the response for an exception.
ErrorResponse(e) ==
  IF StatusFor(e) = 400
  THEN HttpResponse(400, exc_str(e), "",
                    IF e.orig # <<>> THEN exc_str(e.orig[1]) ELSE "None", <<>>, <<>>)
  ELSE HttpResponse(StatusFor(e), "Failed to extract form data", exc_str(e), "", <<>>, <<>>)

RequestRecord(file_name, upload, detection, failed, text, input, normalize, raised) ==
  [file_name |-> file_name, upload |-> upload, detection |-> detection,
   ocr_failed |-> failed, form_text_data |-> text, normalizer_input |-> input,
   normalize |-> normalize, raised |-> raised]

NoRequest == RequestRecord(<<>>, Pending, Pending, FALSE, <<>>, <<>>, Pending, <<>>)

\* extract_form_data, lines 122-186: one request from the upload to the
\* response.  upload, scenario and normalize are what the bucket, the OCR
\* provider and process_form_data do for this request.
ExtractFormData(file_name, upload, scenario, normalize) ==
  /\ rReqs < MaxRequests
  /\ LET up == IF is_valid_filename(file_name)
               THEN upload
               ELSE Raised(Exc("ValueError", "Invalid file name", <<>>))
         uploaded == up.kind = "return"
         isAsync == uploaded /\ UsesAsyncDetection(up.val[1])
         detection == IF ~uploaded THEN Pending
                      ELSE IF isAsync THEN async_text_detection(scenario)
                      ELSE sync_text_detection(scenario)
         form_text_data == extract_text(detection)
         result == IF uploaded THEN normalize ELSE Pending
         raised == IF up.kind = "raise" THEN <<up.exc>>
                   ELSE IF result.kind = "raise" THEN <<result.exc>>
                   ELSE <<>>
         response == IF raised # <<>> THEN ErrorResponse(raised[1])
                     ELSE HttpResponse(200, "", "", "", form_text_data, result.val)
     IN /\ uploaded => scenario \in (IF isAsync THEN AsyncScenarios ELSE SyncScenarios)
        /\ rCall' = RequestRecord(file_name, up, detection,
                                  uploaded /\ scenario.kind # "ok", form_text_data,
                                  IF uploaded THEN <<form_text_data>> ELSE <<>>,
                                  result, raised)
        /\ rResp' = response
        /\ rOcrCalls' = IF uploaded THEN ProviderCalls(up.val[1], scenario) ELSE <<>>
        /\ rPrev500' = IF rResp.status = 500 THEN <<rResp.body>> ELSE rPrev500
  /\ rReqs' = rReqs + 1
  /\ UNCHANGED NotRequest

InitRequest ==
  /\ rCall = NoRequest
  /\ rResp = NoResponse
  /\ rPrev500 = <<>>
  /\ rReqs = 0
  /\ rOcrCalls = <<>>

NextRequest ==
  \E file_name \in RequestNames, upload \in UploadOutcomes,
     scenario \in AsyncScenarios \cup SyncScenarios, normalize \in NormalizeOutcomes :
    ExtractFormData(file_name, upload, scenario, normalize)

InitNormalize ==
  /\ nPc = "idle"
  /\ nArgs = NoArgs
  /\ nAttempt = 0
  /\ nLog = <<>>
  /\ nNow = 0
  /\ nResult = Pending
  /\ nCalls = 0

NextNormalize ==
  \/ \E key \in SchemaKeys, use_pydantic \in BOOLEAN,
        input_content \in InputContents, prep \in PrepareOutcomes :
       ProcessFormDataCall(key, use_pydantic, input_content, prep)
  \/ \E outcome \in LLMOutcomes : InvokeAttempt(outcome)
  \/ RetrySleep
  \/ ProcessFormDataDone

Init ==
  /\ InitNormalize /\ InitUpload /\ InitPoll /\ InitReader /\ InitRequest /\ InitTables
  /\ InitSchema

\* The normalizer alone.
SpecNormalize == Init /\ [][NextNormalize]_vars

\* The upload path alone, with two workers sharing cache and bucket.
SpecUpload == Init /\ [][NextUpload]_vars

\* Uploads issued one after the other, each call starting when no other call
\* is running, with no cache entry reaching its TTL.
SpecUploadSequential == Init /\ [][NextUploadSequential]_vars

\* Schema uploads handled by two workers that share the working directory.
SpecSchema == Init /\ [][NextSchema]_vars

\* One asynchronous OCR job at a time, with its provider.
SpecPoll == Init /\ [][NextPoll]_vars

\* The poll with no bound on its number of checks.
NextPollLive ==
  \/ \E outcome \in SubmitOutcomes : StartJob(outcome)
  \/ \E status \in JobStatuses : ProviderFinish(status)
  \/ \E call \in CheckOutcomes : StatusCheck(call)
  \/ \E call \in CheckOutcomes : StatusCheckMore(call)
  \/ PollSleep
  \/ PollSleepMore
  \/ PollDone

\* The calling thread keeps running: a provider call that was issued comes
\* back and time.sleep(5) ends.  Nothing is assumed about the provider
\* finishing the job, nor about new requests arriving.
PollFairness ==
  /\ WF_vars(\E call \in CheckOutcomes : StatusCheck(call))
  /\ WF_vars(\E call \in CheckOutcomes : StatusCheckMore(call))
  /\ WF_vars(PollSleep)
  /\ WF_vars(PollSleepMore)

SpecPollLive == Init /\ [][NextPollLive]_vars /\ PollFairness

\* The block graph reader on every response of up to MaxBlocks blocks.
SpecReader == Init /\ [][NextReader]_vars

\* Requests to POST /api/extract/, one after the other.
SpecRequest == Init /\ [][NextRequest]_vars

\* Table reconstruction on every response of up to MaxTableBlocks blocks.
SpecTables == Init /\ [][NextTables]_vars

(***************************************************************************)
(* Properties of the normalizer                                            *)
(***************************************************************************)
IsInvoke(e) == e.ev = "invoke"

\* The model invocations of the running call, in order.
Invocations == SelectSeq(nLog, IsInvoke)

\* The attempt failed in the model call itself with a non-validation error.
TransientFailure(e) == e.stage = "model" /\ e.out.exc.type # "ValidationError"

\* The attempt failed with an exception that is not a ValidationError.
NonValidationFailure(e) == e.stage # "ok" /\ e.res.exc.type # "ValidationError"

\* The serialized model output of the attempt was not a mapping.
OutputNotMapping(e) ==
  /\ e.out.kind = "return"
  /\ serialize_response(nArgs.use_pydantic, e.out.val[1]).kind = "return"
  /\ serialize_response(nArgs.use_pydantic, e.out.val[1]).val[1].t # "map"

\* C1: one call of LLMClient.invoke invokes the model at most 3 times; an
\* attempt whose response serializes and validates is the last invocation,
\* and the call returns that attempt's serialized result.
C1_AtMostThreeInvocations ==
  /\ Len(Invocations) <= 3
  /\ \A i \in 1..Len(Invocations) :
       LET e == Invocations[i]
       IN (/\ e.out.kind = "return"
           /\ serialize_response(nArgs.use_pydantic, e.out.val[1]).kind = "return"
           /\ serialize_response(nArgs.use_pydantic, e.out.val[1]).val[1].t = "map")
          => /\ i = Len(Invocations)
             /\ nPc = "done"
             /\ nResult = serialize_response(nArgs.use_pydantic, e.out.val[1])

\* C1 witness: the second attempt succeeded after a failed first one.
C1_Witness ==
  /\ nPc = "done"
  /\ Len(Invocations) = 2
  /\ Invocations[1].stage # "ok"
  /\ Invocations[2].stage = "ok"
  /\ nResult.kind = "return"

\* C2: three consecutive transient (non-validation) failures of the model
\* call end normalize with the error "Max retries exceeded" whose cause is
\* the last failure; two such failures followed by a success on the third
\* attempt make normalize return the third attempt's result.
C2_RetryExhaustionAndRecovery ==
  (nPc = "done" /\ Len(Invocations) = 3
     /\ TransientFailure(Invocations[1]) /\ TransientFailure(Invocations[2]))
  => /\ TransientFailure(Invocations[3])
        => nResult = Raised(Exc("LLMProcessingError", "Max retries exceeded",
                                <<Invocations[3].out.exc>>))
     /\ Invocations[3].stage = "ok"
        => nResult = serialize_response(nArgs.use_pydantic, Invocations[3].out.val[1])

\* C2 witness: three transient failures, the last one different from the
\* first, so that the cause tells them apart.
C2_Witness ==
  /\ nPc = "done"
  /\ Len(Invocations) = 3
  /\ \A i \in 1..3 : TransientFailure(Invocations[i])
  /\ Invocations[3].out.exc # Invocations[1].out.exc
  /\ Invocations[3].out.exc # Invocations[2].out.exc

\* C3 (as claimed): when the serialized output of the final (3rd) attempt is
\* not a mapping, normalize fails with the error "Validation failed ..."
\* carrying the validation error, not with "Max retries exceeded".
C3_ValidationFailureOnFinalAttempt ==
  (nPc = "done" /\ Len(Invocations) = 3 /\ OutputNotMapping(Invocations[3]))
  => /\ nResult.kind = "raise"
     /\ nResult.exc.type = "LLMProcessingError"
     /\ nResult.exc.msg = "Validation failed for LLM response"
     /\ nResult.exc.orig[1].type = "ValidationError"

\* C3, what the code does: validate_output never raises a ValidationError
\* (the exception cannot be constructed from a message), so a non-mapping
\* output of the final attempt ends the call with "Max retries exceeded".
C3_ObservedBehaviour ==
  (nPc = "done" /\ Len(Invocations) = 3 /\ OutputNotMapping(Invocations[3]))
  => /\ nResult.kind = "raise"
     /\ nResult.exc.msg = "Max retries exceeded"
     /\ nResult.exc.orig[1].type = "TypeError"

\* C4: a non-validation failure of attempt n, n = 1 or 2, is followed by one
\* wait of exactly 2*n time units and then by attempt n+1; a failure of the
\* final attempt ends the call with an error without any wait.
C4_LinearBackoff ==
  \A i \in 1..Len(nLog) :
    (nLog[i].ev = "invoke" /\ NonValidationFailure(nLog[i]))
    => LET n == nLog[i].attempt + 1
       IN IF n \in {1, 2}
          THEN /\ i = Len(nLog) => nPc = "sleep"
               /\ i < Len(nLog)
                    => /\ nLog[i + 1].ev = "sleep"
                       /\ nLog[i + 1].dur = 2 * n
                       /\ i + 1 = Len(nLog) => (nPc = "invoke" /\ nNow = nLog[i].at + 2 * n)
               /\ i + 1 < Len(nLog)
                    => /\ nLog[i + 2].ev = "invoke"
                       /\ nLog[i + 2].attempt + 1 = n + 1
                       /\ nLog[i + 2].at = nLog[i].at + 2 * n
          ELSE /\ n = 3
               /\ i = Len(nLog)
               /\ nPc = "done"
               /\ nResult.kind = "raise"
               /\ nNow = nLog[i].at

\* C4 witness: attempts 1 and 2 failed, the waits were 2 and 4, attempt 3
\* failed and the call ended 6 time units after it began.
C4_Witness ==
  /\ nPc = "done"
  /\ Len(Invocations) = 3
  /\ \A i \in 1..3 : NonValidationFailure(Invocations[i])
  /\ nNow = 6

\* C5 (as claimed): with input text "" or None, normalize fails with the
\* invalid-input error before schema preparation and before any model
\* invocation.
C5_EmptyInputRejected ==
  (nPc # "idle" /\ (nArgs.input_content.none \/ nArgs.input_content.s = ""))
  => /\ nPc = "done"
     /\ nLog = <<>>
     /\ nResult.kind = "raise"
     /\ nResult.exc.orig[1].type = "ValueError"

(***************************************************************************)
(* Properties of the upload deduplication                                  *)
(***************************************************************************)
\* The call of worker w has returned normally with a stored name.
ReturnedName(w) ==
  uPc[w] = "done" /\ uRet[w].kind = "return" /\ uRet[w].val[1] # NoneName

\* The finished call of worker w follows, sequentially and with no cache
\* expiry in between, a call that succeeded with the same bytes and another
\* (valid) file name.
FollowsSameContent(w) ==
  /\ uPc[w] = "done"
  /\ is_valid_filename(uArgs[w].file_name)
  /\ uPrev[w].valid
  /\ uPrev[w].res.kind = "return"
  /\ uPrev[w].res.val[1] # NoneName
  /\ uPrev[w].file_content = uArgs[w].file_content
  /\ uPrev[w].file_name # uArgs[w].file_name

\* C6 (as claimed): if upload(b, n1) succeeds and upload(b, n2), n2 # n1,
\* follows it sequentially with no cache expiry in between, the second call
\* returns n1.
C6_SecondUploadReturnsFirstName ==
  \A w \in Workers :
    FollowsSameContent(w) => uRet[w] = Returned(uPrev[w].file_name)

\* C6 (amended): under the same conditions the second call returns the name
\* the first call returned, which is n1 whenever the first call did not
\* find the digest in the cache.
C6_SecondUploadReturnsFirstResult ==
  \A w \in Workers :
    FollowsSameContent(w) => uRet[w] = Returned(uPrev[w].res.val[1])

\* C6 witness: the first call stored the bytes under n1 and the second call,
\* with another name, returned n1.
C6_Witness ==
  \E w \in Workers :
    /\ FollowsSameContent(w)
    /\ uPrev[w].res = Returned(uPrev[w].file_name)
    /\ uRet[w] = Returned(uPrev[w].file_name)

\* C7: a call whose exists_cache test found the digest performs no put and
\* no cache write: none of its steps changes the bucket or the cache.
C7_CacheHitLeavesStoresUnchanged ==
  [][ \A w \in Workers :
        (uOps[w].hit /\ uPc[w] \in {"get", "put", "set"} /\ uPc'[w] # uPc[w])
        => /\ cache' = cache
           /\ blob' = blob
           /\ uOps'[w].puts = 0
           /\ uOps'[w].writes = 0 ]_vars

\* C7 witness: a call has returned the cached name after finding the digest.
C7_Witness ==
  \E w \in Workers :
    /\ ReturnedName(w)
    /\ uOps[w].hit
    /\ uRet[w].val[1] # uArgs[w].file_name

\* The two calls that are the whole history so far: identical bytes,
\* distinct valid names, one per worker, no cache expiry.
TwoRacingCalls ==
  /\ uCalls = 2
  /\ uExpiries = 0
  /\ \A w \in Workers : uPc[w] # "idle" /\ is_valid_filename(uArgs[w].file_name)
  /\ uArgs[1].file_content = uArgs[2].file_content
  /\ uArgs[1].file_name # uArgs[2].file_name

\* C8: two calls with identical bytes and distinct valid names, in every
\* interleaving of their steps: at most two puts happen, every name a call
\* returns is a key that holds exactly those bytes, and the cache entry of
\* the digest, once both calls are over, is one of the two names.
C8_BenignRace ==
  TwoRacingCalls
  => /\ uOps[1].puts + uOps[2].puts <= 2
     /\ \A w \in Workers :
          (uPc[w] = "done" /\ uRet[w].kind = "return")
          => /\ uRet[w].val[1] \in FileNames
             /\ blob[uRet[w].val[1]] = <<uArgs[w].file_content>>
     /\ (/\ \A w \in Workers : uPc[w] = "done"
         /\ \E w \in Workers : uRet[w].kind = "return")
        => cache[get_file_hash(uArgs[1].file_content)]
             \in {<<uArgs[1].file_name>>, <<uArgs[2].file_name>>}

\* C8 witness: both calls missed the cache, both put, and each returned its
\* own name (the redundant upload).
C8_Witness ==
  /\ TwoRacingCalls
  /\ \A w \in Workers : uRet[w] = Returned(uArgs[w].file_name)
  /\ uOps[1].puts + uOps[2].puts = 2

\* The names of the model that violate the filename policy: "report.exe"
\* (extension), ".pdf" (no extension), "a b.pdf" (character) and a name of
\* 256 characters (length).
PolicyViolations ==
  { <<"r","e","p","o","r","t",".","e","x","e">>,
    <<".","p","d","f">>,
    <<"a"," ","b",".","p","d","f">>,
    LongName }

\* C9: a call whose file name violates the filename policy fails with the
\* invalid-name error before the content is hashed, and does no cache read,
\* no cache write and no put.
C9_InvalidNameRejectedFirst ==
  \A w \in Workers :
    (uPc[w] # "idle" /\ uArgs[w].file_name \in PolicyViolations)
    => /\ uPc[w] = "done"
       /\ uRet[w].kind = "raise"
       /\ uRet[w].exc.type = "ValueError"
       /\ uHash[w] = <<>>
       /\ uOps[w] = NoOps

\* C9 witness: "report.exe" was rejected while the cache already held an
\* entry for the very bytes it came with.
C9_Witness ==
  \E w \in Workers :
    /\ uPc[w] = "done"
    /\ uArgs[w].file_name = <<"r","e","p","o","r","t",".","e","x","e">>
    /\ uRet[w].kind = "raise"
    /\ cache[get_file_hash(uArgs[w].file_content)] # <<>>

(***************************************************************************)
(* Properties of the asynchronous OCR job                                  *)
(***************************************************************************)
IsCheck(e) == e.ev = "check"

\* The status checks of the running poll, in order.
Checks == SelectSeq(pLog, IsCheck)

\* The check was answered with a status that the loop does not end on.
NonTerminalAnswer(e) ==
  e.res.kind = "return" /\ e.res.val[1].v \notin {"SUCCEEDED", "FAILED"}

\* C10: poll returns a result only on a check answered SUCCEEDED, and then
\* returns that answer; it raises only on a check answered FAILED or on a
\* check that raised; after any other answer it goes on to another check;
\* and no check follows one that was answered with a terminal status.
C10_PollEndsOnTerminalStatusOnly ==
  Len(Checks) >= 1
  => LET last == Checks[Len(Checks)]
     IN /\ pResult.kind = "return"
             => (last.res.kind = "return" /\ last.res.val[1].v = "SUCCEEDED"
                   /\ pResult = last.res)
        /\ pResult.kind = "raise"
             => (last.res.kind = "raise"
                   \/ (last.res.kind = "return" /\ last.res.val[1].v = "FAILED"))
        /\ NonTerminalAnswer(last) => (pPc \in {"sleep", "poll"} /\ pResult = Pending)
        /\ ~NonTerminalAnswer(last) => pPc = "done"
        /\ \A i \in 1..(Len(Checks) - 1) : NonTerminalAnswer(Checks[i])

\* C10 witness: the poll returned the SUCCEEDED answer of its third check.
C10_Witness ==
  /\ pPc = "done"
  /\ pResult.kind = "return"
  /\ Len(Checks) = 3
  /\ pResult.val[1] = StatusResponse("SUCCEEDED", 3)

TerminalStatuses == {"SUCCEEDED", "FAILED"}

PollRunning == pPc \in {"poll", "sleep"}

\* The poll ended on a reported status (not on an error of the status call).
EndedOnStatus(r) ==
  \/ r.kind = "return"
  \/ r.kind = "raise" /\ r.exc.msg = "Textract text detection failed."

\* C11: once the provider reports SUCCEEDED or FAILED for the job, a running
\* poll eventually terminates; and while the provider reports any other
\* status the poll does not end on a status, however many checks it has
\* made: no attempt limit or deadline ends it.
C11_PollTerminatesIffProviderDoes ==
  /\ (PollRunning /\ jobStatus \in TerminalStatuses) ~> (pPc = "done")
  /\ [][ (PollRunning /\ pPc' = "done" /\ EndedOnStatus(pResult'))
           => jobStatus \in TerminalStatuses ]_vars
  /\ [][ (pPc = "poll" /\ jobStatus \notin TerminalStatuses /\ pPc' # "poll"
            /\ pResult'.kind # "raise")
           => pPc' = "sleep" ]_vars
  /\ [](PollRunning /\ jobStatus \notin TerminalStatuses => pResult = Pending)

\* C11 witness: a poll that ended with the SUCCEEDED answer after more than
\* MaxChecks checks.
C11_Witness ==
  /\ pPc = "done"
  /\ pChecks = MaxChecks + 1
  /\ pResult.kind = "return"
  /\ jobStatus = "SUCCEEDED"

\* C12: in one poll call the first status check comes without a preceding
\* wait, any two consecutive checks are separated by exactly one wait of 5
\* time units, and no wait follows a check answered SUCCEEDED or FAILED.
C12_FixedPollInterval ==
  Len(pLog) >= 2
  => /\ pLog[2].ev = "check" /\ pLog[2].at = 0
     /\ \A i \in 2..Len(pLog) :
          /\ pLog[i].ev \in {"check", "sleep"}
          /\ (pLog[i].ev = "check" /\ i < Len(pLog))
               => /\ pLog[i + 1].ev = "sleep"
                  /\ pLog[i + 1].dur = 5
                  /\ NonTerminalAnswer(pLog[i])
          /\ (pLog[i].ev = "sleep" /\ i < Len(pLog))
               => /\ pLog[i + 1].ev = "check"
                  /\ pLog[i + 1].at = pLog[i].at + 5
     /\ \A i \in 1..(Len(Checks) - 1) : Checks[i + 1].at - Checks[i].at = 5
     /\ (pLog[Len(pLog)].ev = "check" /\ ~NonTerminalAnswer(pLog[Len(pLog)]))
          => pPc = "done"

\* C12 witness: three checks at times 0, 5 and 10, the last one terminal.
C12_Witness ==
  /\ pPc = "done"
  /\ Len(Checks) = 3
  /\ Checks[3].at = 10
  /\ Len(pLog) = 6

SubmitRejected == pLog # <<>> /\ pLog[1].ev = "submit" /\ pLog[1].res.kind = "raise"

\* C13: when the provider rejects the submission, the submit fails with an
\* error and no status check is issued for that file.
C13_RejectedSubmitIsNeverPolled ==
  SubmitRejected
  => /\ pPc = "done"
     /\ pResult.kind = "raise"
     /\ pResult.exc.type = "Exception" => pResult.exc.orig = <<pLog[1].res.exc>>
     /\ Len(Checks) = 0
     /\ pChecks = 0

\* C13 witness: a submission rejected for missing credentials.
C13_Witness ==
  /\ SubmitRejected
  /\ pLog[1].res.exc.type = "NoCredentialsError"
  /\ pResult = Raised(Exc("Exception", "Could not start Textract text detection",
                           <<pLog[1].res.exc>>))

(***************************************************************************)
(* Properties of the form field reconstructor                              *)
(***************************************************************************)
IsKeyBlock(b) == b.BlockType = "KEY_VALUE_SET" /\ "KEY" \in b.EntityTypes

IsValueBlock(b) ==
  b.BlockType = "KEY_VALUE_SET" /\ "KEY" \notin b.EntityTypes /\ "VALUE" \in b.EntityTypes

HasRelation(b, type) == \E n \in 1..Len(b.Relationships) : b.Relationships[n].Type = type

\* The ids of the block's relation of the type (the blocks of BlockPool have
\* at most one relation of each type).
IdsOf(b, type) ==
  b.Relationships[CHOOSE n \in 1..Len(b.Relationships) : b.Relationships[n].Type = type].Ids

KeyIndexes == {i \in 1..Len(bBlocks) : IsKeyBlock(bBlocks[i])}

\* The label of the KEY block at index i: the texts of its CHILD words.
LabelAt(i) ==
  IF HasRelation(bBlocks[i], "CHILD")
  THEN WordsText(bOut.word_map, IdsOf(bBlocks[i], "CHILD"))
  ELSE <<>>

\* The KEY block at i is the one its label's field is built from: it has a
\* label and no later KEY block carries the same label.
OwnsField(i) ==
  /\ i \in KeyIndexes
  /\ LabelAt(i) # <<>>
  /\ \A j \in KeyIndexes : j > i => LabelAt(j) # LabelAt(i)

\* The id has a resolved entry: a VALUE block with that id and CHILD words.
ResolvedBy(id) ==
  {j \in 1..Len(bBlocks) : /\ IsValueBlock(bBlocks[j])
                            /\ bBlocks[j].Id = id
                            /\ HasRelation(bBlocks[j], "CHILD")}

FragmentOf(id) ==
  IF ResolvedBy(id) = {} THEN <<"N/A">>
  ELSE WordsText(bOut.word_map, IdsOf(bBlocks[CHOOSE j \in ResolvedBy(id) : TRUE], "CHILD"))

RECURSIVE WordAtoms(_)
WordAtoms(str) ==
  IF str = <<>> THEN <<>>
  ELSE IF Head(str) \in WhiteSpace THEN WordAtoms(Tail(str))
       ELSE <<Head(str)>> \o WordAtoms(Tail(str))

RECURSIVE WordsBefore(_, _)
WordsBefore(ids, n) ==
  IF n <= 1 THEN 0 ELSE WordsBefore(ids, n - 1) + Len(WordAtoms(FragmentOf(ids[n - 1])))

FieldOf(label) == dict_get(bOut.form_fields, label, <<"<no field>">>)

\* C18: when the VALUE relationship of a KEY block lists an id with no
\* resolved entry (no VALUE block with that id in the response, or one
\* without CHILD words), the field value has "N/A" in the position of that
\* id: it is the fragments of the listed ids, "N/A" for each unresolved
\* one, joined by single spaces (and trimmed at both ends).
C18_MissingValueIsNA ==
  bPc = "processed"
  => \A i \in KeyIndexes :
       (OwnsField(i) /\ HasRelation(bBlocks[i], "VALUE"))
       => LET ids == IdsOf(bBlocks[i], "VALUE")
              value == FieldOf(LabelAt(i))
          IN (\E n \in 1..Len(ids) : ResolvedBy(ids[n]) = {})
             => /\ value = strip(join(<<" ">>, [n \in 1..Len(ids) |-> FragmentOf(ids[n])]))
                /\ \A n \in 1..Len(ids) :
                     ResolvedBy(ids[n]) = {}
                     => /\ WordsBefore(ids, n) + 1 <= Len(WordAtoms(value))
                        /\ WordAtoms(value)[WordsBefore(ids, n) + 1] = "N/A"

\* C18 witness: the field Name: of KEY k2, whose VALUE relationship lists
\* v2 (absent), v1 (resolved to Aria and the empty text of its second
\* word, which is not in the response) and v9 (absent).
C18_Witness ==
  /\ bPc = "processed"
  /\ \E i \in KeyIndexes : bBlocks[i].Id = "k2" /\ OwnsField(i)
  /\ FieldOf(<<"Name:">>) = <<"N/A", " ", "Aria", " ", " ", "N/A">>

\* C19: a KEY block with a non-empty label and no VALUE relationship at all
\* gives the field label -> "N/A".
C19_NoValueEdgeIsNA ==
  bPc = "processed"
  => \A i \in KeyIndexes :
       (OwnsField(i) /\ ~HasRelation(bBlocks[i], "VALUE"))
       => FieldOf(LabelAt(i)) = <<"N/A">>

\* What the code does in the case of C19: the field is the empty string.
C19_ObservedBehaviour ==
  bPc = "processed"
  => \A i \in KeyIndexes :
       (OwnsField(i) /\ ~HasRelation(bBlocks[i], "VALUE"))
       => FieldOf(LabelAt(i)) = <<>>

Permuted(blocks, perm) == [i \in 1..Len(blocks) |-> blocks[perm[i]]]

DistinctLabels == \A i, j \in KeyIndexes : i # j => LabelAt(i) # LabelAt(j)

\* C20: when the KEY blocks of a response have pairwise distinct labels, the
\* label -> value mapping is the same for every permutation of the block
\* list, wherever a VALUE block stands relative to its KEY block.
C20_OrderIndependentFields ==
  (bPc = "processed" /\ DistinctLabels)
  => \A perm \in Permutations(1..Len(bBlocks)) :
       LET blocks == Permuted(bBlocks, perm)
       IN dict_items(extract_form_fields_advanced(blocks, map_word_ids(blocks)))
            = dict_items(bOut.form_fields)

\* C20 witness: VALUE block v1 stands before its KEY block k1 and the field
\* is resolved from it.
C20_Witness ==
  /\ bPc = "processed"
  /\ DistinctLabels
  /\ \E i, j \in 1..Len(bBlocks) :
       i < j /\ bBlocks[i].Id = "v1" /\ bBlocks[j].Id = "k1"
  /\ FieldOf(<<"Name:">>) = <<"Aria">>

(***************************************************************************)
(* Properties of POST /api/extract/                                        *)
(***************************************************************************)
NormalizerInvoked == rCall.normalizer_input # <<>>

OcrSucceeded == rCall.detection.kind = "return" /\ ~rCall.ocr_failed

\* C14: in every request the text passed to the normalizer, and returned as
\* form_text_data, is the formatted extraction (form fields and text lines)
\* reconstructed from the OCR response for the uploaded file.
C14_NormalizerGetsTheExtraction ==
  (NormalizerInvoked /\ OcrSucceeded)
  => /\ rCall.normalizer_input = rCall.detection.val
     /\ rResp.status = 200 => rResp.body.form_text_data = rCall.detection.val[1]

\* What the code does in the case of C14: the normalizer is given the empty
\* string and form_text_data is the empty string.
C14_ObservedBehaviour ==
  NormalizerInvoked
  => /\ rCall.normalizer_input = <<(<<>>)>>
     /\ rResp.status = 200 => rResp.body.form_text_data = <<>>

\* C15: when the OCR step fails for the file (submission rejected, job
\* FAILED, status check error, synchronous analysis error) the extraction
\* fails to its caller and the request does not invoke the normalizer.
C15_OcrFailureStopsTheRequest ==
  rCall.ocr_failed => (~NormalizerInvoked /\ rResp.status # 200)

C17_Generic500Body ==
  (rResp.status = 500 /\ rPrev500 # <<>>) => rResp.body = rPrev500[1]

\* The value derived from the KEY block at index i alone.
ValueDerivedFrom(i) ==
  LET ids == IF HasRelation(bBlocks[i], "VALUE") THEN IdsOf(bBlocks[i], "VALUE") ELSE <<>>
  IN strip(join(<<" ">>, [n \in 1..Len(ids) |-> FragmentOf(ids[n])]))

Labels == {LabelAt(i) : i \in KeyIndexes} \ {<<>>}

\* C21: when several KEY blocks have the same label text, the mapping has
\* exactly one entry for the label and its value is the one derived from
\* the KEY block that is last in response order.
C21_LastKeyWins ==
  bPc = "processed"
  => \A label \in Labels :
       LET owners == {i \in KeyIndexes : LabelAt(i) = label}
           last == CHOOSE i \in owners : \A j \in owners : j <= i
       IN /\ Cardinality({n \in 1..Len(bOut.form_fields) :
                             bOut.form_fields[n].k = label}) = 1
          /\ FieldOf(label) = ValueDerivedFrom(last)

\* C21 witness: k1 and then k2 carry the label Name:, and the field has
\* the value of k2, which differs from the one k1 gives.
C21_Witness ==
  /\ bPc = "processed"
  /\ \E i, j \in KeyIndexes :
       /\ i < j /\ bBlocks[i].Id = "k1" /\ bBlocks[j].Id = "k2"
       /\ LabelAt(i) = LabelAt(j) /\ LabelAt(i) # <<>>
       /\ ValueDerivedFrom(i) # ValueDerivedFrom(j)
       /\ FieldOf(LabelAt(i)) = ValueDerivedFrom(j)

LineIndexes == {i \in 1..Len(bBlocks) : bBlocks[i].BlockType = "LINE"}

\* C22: extract_text_by_type returns exactly the texts of the blocks of the
\* requested type in response order: as many entries as there are such
\* blocks, the n-th entry being the text of the n-th such block.
C22_LinesInResponseOrder ==
  bPc = "processed"
  => /\ Len(bOut.lines) = Cardinality(LineIndexes)
     /\ \A i \in LineIndexes :
          bOut.lines[Cardinality({j \in LineIndexes : j <= i})] = bBlocks[i].Text

\* C22 witness: two LINE blocks, l2 before l1, with another block between.
C22_Witness ==
  /\ bPc = "processed"
  /\ Len(bBlocks) >= 3
  /\ bBlocks[1].Id = "l2" /\ bBlocks[2].BlockType # "LINE" /\ bBlocks[3].Id = "l1"
  /\ bOut.lines = <<(<<"Agree">>), (<<"Name:", " ", "Aria">>)>>

\* C23: the word map has exactly the ids of the WORD and SELECTION_ELEMENT
\* blocks as its keys, each once, a WORD id mapped to the block's text and
\* a SELECTION_ELEMENT id to the block's selection status.
C23_WordMapDomainAndValues ==
  bPc = "processed"
  => LET wm == bOut.word_map
         mapped == {i \in 1..Len(bBlocks) :
                      bBlocks[i].BlockType \in {"WORD", "SELECTION_ELEMENT"}}
     IN /\ {wm[n].k : n \in 1..Len(wm)} = {bBlocks[i].Id : i \in mapped}
        /\ Len(wm) = Cardinality(mapped)
        /\ \A i \in mapped :
             \E n \in 1..Len(wm) :
               /\ wm[n].k = bBlocks[i].Id
               /\ wm[n].v = IF bBlocks[i].BlockType = "WORD"
                             THEN bBlocks[i].Text
                             ELSE bBlocks[i].SelectionStatus

\* C23 witness: a word, a selection element and blocks of other types.
C23_Witness ==
  /\ bPc = "processed"
  /\ Len(bBlocks) = 4
  /\ dict_items(bOut.word_map)
       = {[k |-> "w1", v |-> <<"Name:">>], [k |-> "s1", v |-> <<"SELECTED">>]}

(***************************************************************************)
(* Properties of the table reconstruction                                  *)
(***************************************************************************)
TableIndexes == {i \in 1..Len(tBlocks) : tBlocks[i].BlockType = "TABLE"}

CellIndexes == {i \in 1..Len(tBlocks) : tBlocks[i].BlockType = "CELL"}

\* The TABLE block a cell stands under: the last one before it.
TableOf(i) == CHOOSE t \in TableIndexes : t < i /\ \A u \in TableIndexes : u < i => u <= t

CellsUnder(t) == {i \in CellIndexes : TableOf(i) = t}

\* The entry of the TABLE block at index t: entries are in TABLE order.
EntryOf(t) == tOut[Cardinality({u \in TableIndexes : u <= t})]

HasNextCell(i) == \E j \in CellsUnder(TableOf(i)) : j > i

NextCell(i) ==
  CHOOSE j \in CellsUnder(TableOf(i)) :
    j > i /\ \A m \in CellsUnder(TableOf(i)) : m > i => j <= m

\* The row of cell i ends with it: it is the final cell of its row, or the
\* next cell of the table has another row index.
RowEndsAt(i) ==
  \/ tBlocks[i].ColumnIndex = tBlocks[i].Columns
  \/ HasNextCell(i) /\ tBlocks[NextCell(i)].RowIndex # tBlocks[i].RowIndex

\* The cells of the row that cell i is in: those from i backwards and
\* forwards with no row end between them.
SameRow(i, j) ==
  /\ TableOf(i) = TableOf(j)
  /\ \A m \in CellsUnder(TableOf(i)) :
       ((i <= m /\ m < j) \/ (j <= m /\ m < i)) => ~RowEndsAt(m)

RowCells(i) == {j \in CellIndexes : SameRow(i, j)}

\* The row of cell i was flushed into its table.
RowFlushed(i) == \E e \in RowCells(i) : RowEndsAt(e)

\* The rows of the table that end before cell i, plus one.
RowNumber(i) ==
  Cardinality({e \in CellsUnder(TableOf(i)) : e < i /\ RowEndsAt(e) /\ ~SameRow(e, i)}) + 1

PositionInRow(i) == Cardinality({j \in RowCells(i) : j <= i})

\* C24: each TABLE block produces one entry of the result, and a TABLE
\* block followed by no CELL block produces an entry with an empty row
\* list.
C24_EveryTableRegisters ==
  tPc = "extracted"
  => /\ Len(tOut) = Cardinality(TableIndexes)
     /\ \A m, n \in 1..Len(tOut) : tOut[m].k = tOut[n].k => m = n
     /\ \A t \in TableIndexes : CellsUnder(t) = {} => EntryOf(t).v = <<>>

\* C24 witness: t1 with no cell, then t2 with a full row.
C24_Witness ==
  /\ tPc = "extracted"
  /\ Len(tBlocks) = 4
  /\ tBlocks[1].Id = "t1" /\ tBlocks[2].Id = "t2"
  /\ Len(tOut) = 2
  /\ tOut[1].v = <<>>
  /\ Len(tOut[2].v) = 1

\* C25: a CELL block without CHILD relationship contributes the string " "
\* (not the empty string) at its position in its row, and a row has as many
\* cell strings as it has CELL blocks.
C25_CellPlaceholderKeepsAlignment ==
  tPc = "extracted"
  => \A i \in CellIndexes :
       RowFlushed(i)
       => LET rows == EntryOf(TableOf(i)).v
          IN /\ RowNumber(i) <= Len(rows)
             /\ Len(rows[RowNumber(i)]) = Cardinality(RowCells(i))
             /\ ~HasRelation(tBlocks[i], "CHILD")
                  => rows[RowNumber(i)][PositionInRow(i)] = <<" ">>
             /\ rows[RowNumber(i)][PositionInRow(i)] # <<>>

\* C25 witness: the row of c11 and c12, the second cell being " ".
C25_Witness ==
  /\ tPc = "extracted"
  /\ Len(tBlocks) = 4
  /\ tBlocks[2].Id = "c21" /\ tBlocks[3].Id = "c11" /\ tBlocks[4].Id = "c12"
  /\ tOut[1].v = <<(<<(<<"Aria", " ", "Name:">>)>>), (<<(<<"Name:">>), (<<" ">>)>>)>>

(***************************************************************************)
(* Serialization of the model response                                     *)
(***************************************************************************)
\* TRUE when x, or a value nested in x at any depth, has runtime type t.
RECURSIVE Contains(_, _)
Contains(x, t) ==
  \/ x.t = t
  \/ /\ x.t = "seq"
     /\ \E i \in 1..Len(x.c) : Contains(x.c[i], t)
  \/ /\ x.t \in {"map", "record"}
     /\ \E i \in 1..Len(x.c) : Contains(x.c[i][2], t)

\* The model response of the attempt that ended the call.
LastResponse == Invocations[Len(Invocations)].out.val[1]

\* The call returned a normalized record.
ReturnedRecord == nPc = "done" /\ nResult.kind = "return" /\ Invocations # <<>>

\* C26 (as claimed): under both strategies the returned record is the model
\* response with every datetime rendered as its ISO-8601 string, it holds no
\* datetime value any more, and the JSON-safety conversion applied to it
\* gives it back unchanged.
C26_DatetimesRenderedIso ==
  ReturnedRecord
  => /\ ~Contains(nResult.val[1], "datetime")
     /\ nResult.val[1] = json_roundtrip(LastResponse)
     /\ json_roundtrip(nResult.val[1]) = nResult.val[1]

\* C26, what the code does: the JSON-schema strategy renders the datetimes
\* and its output is a fixed point of the conversion; the typed-record
\* strategy returns model_dump() / serialize(), which keep every datetime of
\* the response as a datetime object.
C26_ObservedBehaviour ==
  ReturnedRecord
  => IF nArgs.use_pydantic
     THEN /\ Contains(nResult.val[1], "datetime") <=> Contains(LastResponse, "datetime")
          /\ serialize(nResult.val[1]) = nResult.val[1]
     ELSE /\ ~Contains(nResult.val[1], "datetime")
          /\ nResult.val[1] = json_roundtrip(LastResponse)
          /\ json_roundtrip(nResult.val[1]) = nResult.val[1]

\* Both halves of C26_ObservedBehaviour occur with a datetime in the response.
C26_ObservedWitness ==
  /\ ReturnedRecord
  /\ Contains(LastResponse, "datetime")
  /\ ~nArgs.use_pydantic

\* C27 (as claimed): under both strategies an attempt whose response holds,
\* at the top level or nested, a value of an unsupported type fails in
\* serialization, and no returned record holds such a value.
C27_UnsupportedValueIsRefused ==
  /\ \A i \in 1..Len(nLog) :
       (nLog[i].ev = "invoke" /\ nLog[i].out.kind = "return"
          /\ Contains(nLog[i].out.val[1], "other"))
       => (nLog[i].stage = "serialize" /\ nLog[i].res.kind = "raise")
  /\ ReturnedRecord => ~Contains(nResult.val[1], "other")

\* C27, what the code does: the JSON-schema strategy refuses the value at
\* any depth; the typed-record strategy refuses it only when it is the
\* response itself, and otherwise hands it on inside the returned record.
C27_ObservedBehaviour ==
  \A i \in 1..Len(nLog) :
    (nLog[i].ev = "invoke" /\ nLog[i].out.kind = "return"
       /\ Contains(nLog[i].out.val[1], "other"))
    => IF nArgs.use_pydantic /\ nLog[i].out.val[1].t \in {"map", "record"}
       THEN /\ nLog[i].stage = "ok"
            /\ Contains(nLog[i].res.val[1], "other")
       ELSE /\ nLog[i].stage = "serialize"
            /\ nLog[i].res.kind = "raise"
            /\ nLog[i].res.exc.type = (IF nArgs.use_pydantic THEN "ValueError" ELSE "TypeError")

\* The JSON-schema strategy refused a nested unsupported value.
C27_ObservedWitness ==
  \E i \in 1..Len(nLog) :
    /\ nLog[i].ev = "invoke" /\ nLog[i].out.kind = "return"
    /\ nLog[i].out.val[1].t = "map"
    /\ Contains(nLog[i].out.val[1], "other")
    /\ ~nArgs.use_pydantic

(***************************************************************************)
(* Cache entries under sequential uploads                                  *)
(***************************************************************************)
\* C28: in a sequential series of upload calls with no TTL expiry no step
\* deletes a cache entry or replaces the name it holds, so the entry made by
\* the first successful upload of a content is still there afterwards.
C28_UploadKeepsCacheEntries ==
  [][ \A d \in Digests : cache[d] # <<>> => cache'[d] = cache[d] ]_vars

\* C28 witness: a later call with the same bytes and another valid name has
\* ended and the digest is still cached under the first name, which is the
\* only key of the bucket holding the bytes.
C28_Witness ==
  \E w \in Workers :
    /\ uPc[w] = "done"
    /\ uCalls = 3
    /\ is_valid_filename(uArgs[w].file_name)
    /\ uOps[w].hit
    /\ cache[uHash[w]] # <<>>
    /\ cache[uHash[w]][1] # uArgs[w].file_name
    /\ blob[cache[uHash[w]][1]] = <<uArgs[w].file_content>>
    /\ blob[uArgs[w].file_name] = <<>>

(***************************************************************************)
(* How LLMClient.invoke ends                                               *)
(***************************************************************************)
\* C29: a call of LLMClient.invoke that has ended either returned a mapping
\* accepted by validate_output or raised LLMProcessingError; it never fell
\* out of the retry loop returning None.
C29_InvokeReturnsOrRaises ==
  (nPc = "done" /\ Invocations # <<>>)
  => \/ /\ nResult.kind = "return"
        /\ nResult.val[1] # PyNone
        /\ nResult.val[1].t = "map"
        /\ validate_output(nResult.val[1]) = Returned(nResult.val[1])
     \/ /\ nResult.kind = "raise"
        /\ nResult.exc.type = "LLMProcessingError"
        /\ nResult.exc.msg \in {"Max retries exceeded",
                                "Validation failed for LLM response"}

\* C29 witness: the model call raised ValidationError on all three attempts,
\* the first two passing through the branch that has no raise, and the call
\* ended with LLMProcessingError.
C29_Witness ==
  /\ nPc = "done"
  /\ Len(Invocations) = 3
  /\ \A i \in 1..3 : /\ Invocations[i].stage = "model"
                      /\ Invocations[i].out.exc.type = "ValidationError"
  /\ nResult.kind = "raise"
  /\ nResult.exc.type = "LLMProcessingError"
  /\ nResult.exc.msg = "Validation failed for LLM response"

\* C30 (as claimed): when the serialized output of attempt 1 or 2 fails
\* validation the next attempt starts at once, at the same time; a backoff
\* wait only follows a failure that is not a validation failure.
C30_ValidationFailureRetriesAtOnce ==
  \A i \in 1..Len(nLog) :
    /\ (nLog[i].ev = "invoke" /\ nLog[i].stage = "validate"
          /\ nLog[i].attempt + 1 < 3)
       => /\ i = Len(nLog) => nPc = "invoke"
          /\ i < Len(nLog) => /\ nLog[i + 1].ev = "invoke"
                              /\ nLog[i + 1].at = nLog[i].at
    /\ nLog[i].ev = "sleep"
       => /\ nLog[i - 1].stage \in {"model", "serialize"}
          /\ nLog[i - 1].res.exc.type # "ValidationError"

\* C30, what the code does: the failure of validate_output is a TypeError,
\* handled by the general branch, so attempt n < 3 is followed by a wait of
\* 2*n; only a ValidationError raised by the model call itself is followed
\* by the next attempt without a wait.
C30_ObservedBehaviour ==
  \A i \in 1..Len(nLog) :
    (nLog[i].ev = "invoke" /\ nLog[i].stage # "ok" /\ nLog[i].attempt + 1 < 3)
    => IF nLog[i].stage = "model" /\ nLog[i].out.exc.type = "ValidationError"
       THEN /\ i = Len(nLog) => nPc = "invoke"
            /\ i < Len(nLog) => /\ nLog[i + 1].ev = "invoke"
                                /\ nLog[i + 1].at = nLog[i].at
       ELSE /\ i = Len(nLog) => nPc = "sleep"
            /\ i < Len(nLog) => /\ nLog[i + 1].ev = "sleep"
                                /\ nLog[i + 1].dur = 2 * (nLog[i].attempt + 1)

\* A validation failure of attempt 1 was followed by a wait of 2.
C30_ObservedWitness ==
  /\ Len(nLog) >= 3
  /\ nLog[2].ev = "invoke" /\ nLog[2].stage = "validate"
  /\ nLog[3].ev = "sleep" /\ nLog[3].dur = 2

(***************************************************************************)
(* Strategy preparation and the failures of process_form_data              *)
(***************************************************************************)
IsPrepare(e) == e.ev = "prepare"

IsSleep(e) == e.ev = "sleep"

\* The call got past the input check and its strategy could not be prepared:
\* the typed-record lookup had no such key, or the schema document could not
\* be fetched or parsed.
PreparationFailed ==
  /\ nPc = "done"
  /\ ~nArgs.input_content.none
  /\ IF nArgs.use_pydantic
     THEN nArgs.data_schema_key = "invoice"
     ELSE nLog # <<>> /\ nLog[1].ev = "prepare" /\ nLog[1].stage # "ok"

\* C31: the strategy is prepared once per call and before the first model
\* invocation; a call whose preparation fails ends with LLMProcessingError
\* without any model invocation, retry or wait.
C31_PreparedOnceBeforeInvoking ==
  /\ Len(SelectSeq(nLog, IsPrepare)) <= 1
  /\ \A i \in 1..Len(nLog) : IsPrepare(nLog[i]) => i = 1
  /\ Invocations # <<>> => (IsPrepare(nLog[1]) /\ nLog[1].stage = "ok")
  /\ PreparationFailed
     => /\ nResult.kind = "raise"
        /\ nResult.exc.type = "LLMProcessingError"
        /\ Invocations = <<>>
        /\ SelectSeq(nLog, IsSleep) = <<>>
        /\ nNow = 0

\* C31 witness: the second call of the run asked the typed-record strategy
\* for a key the lookup table does not have, and failed at once.
C31_Witness ==
  /\ PreparationFailed
  /\ nCalls = 2
  /\ nArgs.use_pydantic
  /\ nResult = Raised(LLMProcessingError("Processing failed",
                                         Exc("KeyError", "invoice", <<>>)))

PutFailed(w) ==
  /\ uPc[w] = "done"
  /\ uRet[w].kind = "raise"
  /\ uRet[w].exc.msg = "Could not upload file"

\* Every name the cache holds, and every name a call has returned as the
\* result of its own put, is a key of the bucket.
CachedNamesStored ==
  /\ \A d \in Digests : cache[d] # <<>> => blob[cache[d][1]] # <<>>
  /\ \A w \in Workers :
       (uPc[w] = "done" /\ uRet[w].kind = "return" /\ ~uOps[w].hit)
       => blob[uRet[w].val[1]] # <<>>

\* Of the two calls that are the whole history, with the same bytes, one
\* ended in a failed put and the other returned: the other one made the put
\* itself and the name it returned holds the bytes.
RetryPutsAgain ==
  \A w, v \in Workers :
    (/\ uCalls = 2
     /\ PutFailed(w)
     /\ uPc[v] = "done" /\ uRet[v].kind = "return"
     /\ uArgs[v].file_content = uArgs[w].file_content)
    => /\ ~uOps[v].hit
       /\ uOps[v].puts = 1
       /\ uRet[v] = Returned(uArgs[v].file_name)
       /\ blob[uArgs[v].file_name] = <<uArgs[v].file_content>>

\* C33: the step in which the put of a call fails ends the call with an
\* error and leaves the cache (and the bucket) as they were, the call having
\* written no cache entry; so no cached or returned name is one that was
\* never stored, and an upload of the same bytes makes the put again.
C33_FailedPutWritesNoCacheEntry ==
  [][ /\ \A w \in Workers :
           (uPc[w] = "put" /\ uPc'[w] = "done")
           => /\ cache' = cache
              /\ blob' = blob
              /\ PutFailed(w)'
              /\ uOps'[w].writes = 0
      /\ CachedNamesStored'
      /\ RetryPutsAgain' ]_vars

\* C33 witness: the put of the first call failed, the digest is not cached,
\* and the second call, with the same bytes and name, made the put and
\* cached the name.
C33_Witness ==
  /\ uCalls = 2
  /\ PutFailed(1)
  /\ uPc[2] = "done"
  /\ uArgs[2] = uArgs[1]
  /\ uOps[1].puts = 0 /\ uOps[1].writes = 0
  /\ uOps[2].puts = 1 /\ uOps[2].writes = 1
  /\ uRet[2] = Returned(uArgs[2].file_name)
  /\ cache[uHash[2]] = <<uArgs[2].file_name>>

(***************************************************************************)
(* The name a successful upload returns                                    *)
(***************************************************************************)
\* C34 (as claimed): every call that returns, returns a stored name and not
\* None, also when the cache entry of the digest is gone between the call's
\* exists_cache and its get_cache.
C34_ReturnedNameNeverNull ==
  \A w \in Workers :
    (uPc[w] = "done" /\ uRet[w].kind = "return")
    => /\ uRet[w].val[1] # NoneName
       /\ uRet[w].val[1] \in FileNames
       /\ blob[uRet[w].val[1]] # <<>>

\* C34, what the code does: a call returns None exactly when its
\* exists_cache found the digest and the entry had expired by the time of
\* its get_cache; every other return is a name that is a key of the bucket.
C34_ObservedBehaviour ==
  \A w \in Workers :
    (uPc[w] = "done" /\ uRet[w].kind = "return")
    => IF uRet[w].val[1] = NoneName
       THEN uOps[w].hit /\ uOps[w].reads = 2 /\ uExpiries > 0
       ELSE uRet[w].val[1] \in FileNames /\ blob[uRet[w].val[1]] # <<>>

\* A call returned None although it made no put and raised nothing.
C34_ObservedWitness ==
  \E w \in Workers :
    /\ uPc[w] = "done"
    /\ uRet[w] = Returned(NoneName)
    /\ uOps[w].puts = 0

(***************************************************************************)
(* The schema stored by POST /api/upload-schema                            *)
(***************************************************************************)
\* JsonSchemaStrategy.prepare_llm for data_schema_key = key: the document
\* under "<key>.json", parsed.
FetchedSchema(key) ==
  IF schema_bucket[SchemaObjectKey(key)] = <<>>
  THEN Raised(Exc("ClientError", "NoSuchKey", <<>>))
  ELSE json_loads(schema_bucket[SchemaObjectKey(key)][1])

\* The request of worker w was answered 200 and no request for the same
\* key has been made besides it: it is the only request so far, or the
\* second of two requests with different keys, one per worker.
AnsweredAlone(w) ==
  /\ sPc[w] = "done"
  /\ sResp[w] = 200
  /\ \/ sReqs = 1
     \/ /\ sReqs = 2
        /\ \A v \in Workers \ {w} :
             sPc[v] # "idle" /\ sPayload[v].key # sPayload[w].key

\* C35 (as claimed): once a request (key, schema) is answered 200 the
\* schema bucket holds under "<key>.json" that schema, and it is what the
\* schema-document strategy fetches for the key; also for two requests with
\* different keys handled at the same time.
C35_StoredSchemaIsThePayload ==
  \A w \in Workers :
    AnsweredAlone(w)
    => /\ schema_bucket[SchemaObjectKey(sPayload[w].key)]
            = <<json_dump(sPayload[w].data_schema)>>
       /\ FetchedSchema(sPayload[w].key) = Returned(sPayload[w].data_schema)

\* C35, what the code does: a request handled alone stores its schema; of
\* two requests handled at the same time, one answered 200 has stored what
\* the staging file held when it read it: its own schema, the schema of the
\* other request, or the empty file the other request had just truncated.
C35_ObservedBehaviour ==
  \A w \in Workers :
    AnsweredAlone(w)
    => LET stored == schema_bucket[SchemaObjectKey(sPayload[w].key)]
       IN IF sReqs = 1
          THEN stored = <<json_dump(sPayload[w].data_schema)>>
          ELSE \/ stored = <<json_dump(sPayload[w].data_schema)>>
               \/ \E v \in Workers \ {w} : stored = <<json_dump(sPayload[v].data_schema)>>
               \/ stored = <<(<<>>)>>

\* Both requests were answered 200 and the key "resume" holds the schema
\* that was sent for "card".
C35_ObservedWitness ==
  /\ sReqs = 2
  /\ sPayload[1] = [key |-> "resume", data_schema |-> "Resume"]
  /\ sPayload[2] = [key |-> "card", data_schema |-> "Card"]
  /\ AnsweredAlone(1) /\ AnsweredAlone(2)
  /\ FetchedSchema("resume") = Returned("Card")
  /\ FetchedSchema("card") = Returned("Card")

(***************************************************************************)
(* Labels and values of the form fields                                    *)
(***************************************************************************)
\* The value of the KEY block at index i before it is trimmed.
UntrimmedValue(i) ==
  LET ids == IF HasRelation(bBlocks[i], "VALUE") THEN IdsOf(bBlocks[i], "VALUE") ELSE <<>>
  IN join(<<" ">>, [n \in 1..Len(ids) |-> FragmentOf(ids[n])])

\* C36: the labels of the mapping are exactly the non-empty label texts of
\* the KEY blocks (a KEY block whose label is the empty string gives no
\* entry), and no value begins or ends with whitespace.
C36_LabelSetAndTrimmedValues ==
  bPc = "processed"
  => /\ {bOut.form_fields[n].k : n \in 1..Len(bOut.form_fields)} = Labels
     /\ <<>> \notin {bOut.form_fields[n].k : n \in 1..Len(bOut.form_fields)}
     /\ \A n \in 1..Len(bOut.form_fields) :
          LET v == bOut.form_fields[n].v
          IN v # <<>> => (v[1] \notin WhiteSpace /\ v[Len(v)] \notin WhiteSpace)

\* C36 witness: the value joined for the label Name: ends with a space (the
\* last word of its VALUE block is not in the response) and the field holds
\* it without the space.
C36_Witness ==
  /\ bPc = "processed"
  /\ \E i \in KeyIndexes :
       /\ OwnsField(i)
       /\ LabelAt(i) = <<"Name:">>
       /\ UntrimmedValue(i) = <<"Aria", " ">>
       /\ FieldOf(LabelAt(i)) = <<"Aria">>

(***************************************************************************)
(* The OCR path of a file                                                  *)
(***************************************************************************)
\* The name ends in ".pdf", in any mix of upper and lower case.
EndsInPdf(name) ==
  LET n == Len(name)
  IN /\ n >= 4
     /\ name[n - 3] = "."
     /\ name[n - 2] \in {"p", "P"}
     /\ name[n - 1] \in {"d", "D"}
     /\ name[n] \in {"f", "F"}

CallsOf(api) == SelectSeq(rOcrCalls, LAMBDA c : c = api)

\* The submit of the request's job was rejected.
SubmitWasRejected ==
  /\ rCall.detection.kind = "raise"
  /\ rCall.detection.exc.orig[1].msg = "Could not start Textract text detection"

====
